---- MODULE Spec2Model ----
(***************************************************************************)
(* Fleet maintenance scheduling: the library maintenance_program.py        *)
(* (Component, ComponentRecord, Equipment, WorkOrder, Scheduler) and the   *)
(* Streamlit handlers of maintenance_app_roles.py that drive it.           *)
(*                                                                         *)
(* Units.  Counters (horometro, odometro, last_service_hours/km) are       *)
(* counted in steps of 1/Res hour or km, the step of the readings form.    *)
(* Intervals are whole hours, km or days as in Component.  Timestamps are  *)
(* clock ticks, TicksPerDay to a day; a date is a day number.              *)
(***************************************************************************)
EXTENDS Integers, Sequences, FiniteSets, TLC

VARIABLES
    fleet,            \* st.session_state.fleet: id -> Equipment
    pending_orders,   \* Scheduler.pending_orders: sequence of WorkOrder
    work_requests,    \* st.session_state.work_requests: sequence of dict
    file,             \* contents of DATA_FILE
    clock,            \* datetime.datetime.now()
    uuid_counter,     \* number of uuid4() values drawn so far
    ret,              \* the last operation, its arguments and its result
    hor_at_creation,  \* history: order id -> horometro when it was created
    inventory,        \* Inventory: _stock and _part_mapping
    failure_log,      \* FailureLog.entries: sequence of failure events
    threads           \* concurrent callers: thread -> its call in progress

vars == <<fleet, pending_orders, work_requests, file, clock, uuid_counter,
          ret, hor_at_creation, inventory, failure_log, threads>>

\* what the scheduling and the app's handlers modelled here leave alone
others == <<inventory, failure_log, threads>>

----------------------------------------------------------------------------
(* Bounds of the model *)

MaxDay == 1
MaxCounter == 2
MaxIds == 2
MaxInterval == 2
MaxStock == 3
MaxEntries == 3

(* Program constants *)

Res == 2
TicksPerDay == 2
None == -1
Hour == 3600

----------------------------------------------------------------------------
(* Values *)

Max(a, b) == IF a >= b THEN a ELSE b

Range(s) == {s[i] : i \in DOMAIN s}

\* datetime.date of a datetime: .date()
DateOf(t) == t \div TicksPerDay

\* format(x, ".0f") of a counter difference x (in 1/Res units): the nearest
\* integer, a tie going to the even one
Fmt0(x) ==
    LET q == x \div Res
        r == x % Res
    IN  IF 2 * r < Res THEN q
        ELSE IF 2 * r > Res THEN q + 1
        ELSE IF q % 2 = 0 THEN q ELSE q + 1

----------------------------------------------------------------------------
(* ComponentRecord.is_due *)

is_due_strict(record, current_date, current_hours, current_km) ==
    LET delta_hours == current_hours - record.last_service_hours
        delta_km == current_km - record.last_service_km
        delta_days == current_date - record.last_service_date
    IN  IF record.hours_interval # None /\ delta_hours > Res * record.hours_interval
        THEN <<TRUE, <<"Horas alcanzadas", Fmt0(delta_hours), record.hours_interval>> >>
        ELSE IF record.km_interval # None /\ delta_km > Res * record.km_interval
        THEN <<TRUE, <<"Kilometros alcanzados", Fmt0(delta_km), record.km_interval>> >>
        ELSE IF record.days_interval # None /\ delta_days > record.days_interval
        THEN <<TRUE, <<"Dias alcanzados", delta_days, record.days_interval>> >>
        ELSE <<FALSE, <<>> >>

is_due_days_first(record, current_date, current_hours, current_km) ==
    LET delta_hours == current_hours - record.last_service_hours
        delta_km == current_km - record.last_service_km
        delta_days == current_date - record.last_service_date
    IN  IF record.days_interval # None /\ delta_days >= record.days_interval
        THEN <<TRUE, <<"Dias alcanzados", delta_days, record.days_interval>> >>
        ELSE IF record.km_interval # None /\ delta_km >= Res * record.km_interval
        THEN <<TRUE, <<"Kilometros alcanzados", Fmt0(delta_km), record.km_interval>> >>
        ELSE IF record.hours_interval # None /\ delta_hours >= Res * record.hours_interval
        THEN <<TRUE, <<"Horas alcanzadas", Fmt0(delta_hours), record.hours_interval>> >>
        ELSE <<FALSE, <<>> >>

is_due_none_as_zero(record, current_date, current_hours, current_km) ==
    LET delta_hours == current_hours - record.last_service_hours
        delta_km == current_km - record.last_service_km
        delta_days == current_date - record.last_service_date
        iv(x) == IF x = None THEN 0 ELSE x
    IN  IF delta_hours >= Res * iv(record.hours_interval)
        THEN <<TRUE, <<"Horas alcanzadas", Fmt0(delta_hours), iv(record.hours_interval)>> >>
        ELSE IF delta_km >= Res * iv(record.km_interval)
        THEN <<TRUE, <<"Kilometros alcanzados", Fmt0(delta_km), iv(record.km_interval)>> >>
        ELSE IF delta_days >= iv(record.days_interval)
        THEN <<TRUE, <<"Dias alcanzados", delta_days, iv(record.days_interval)>> >>
        ELSE <<FALSE, <<>> >>

is_due(record, current_date, current_hours, current_km) ==
    LET delta_hours == current_hours - record.last_service_hours
        delta_km == current_km - record.last_service_km
        delta_days == current_date - record.last_service_date
    IN  IF record.hours_interval # None /\ delta_hours >= Res * record.hours_interval
        THEN <<TRUE, <<"Horas alcanzadas", Fmt0(delta_hours), record.hours_interval>> >>
        ELSE IF record.km_interval # None /\ delta_km >= Res * record.km_interval
        THEN <<TRUE, <<"Kilometros alcanzados", Fmt0(delta_km), record.km_interval>> >>
        ELSE IF record.days_interval # None /\ delta_days >= record.days_interval
        THEN <<TRUE, <<"Dias alcanzados", delta_days, record.days_interval>> >>
        ELSE <<FALSE, <<>> >>

----------------------------------------------------------------------------
(* Names.  The registry and every components dict are Python dicts, which   *)
(* iterate in insertion order: the order of the seeding loops.              *)

EqSeq == <<"T648", "K69">>
CompSeq == <<"Amortiguadores", "Luces">>
FreeText == "Motor"

EqIds == Range(EqSeq)
CompNames == Range(CompSeq)

\* statuses that set_status receives anywhere in the program
Statuses == {"operativo", "en solicitud", "en mantenimiento"}

\* the criticidad chosen in the creation forms, and in a reclassification
FormClass == {"alta"}
Reclass == {"baja"}

\* Component(name, criticidad, hours_interval, km_interval, days_interval):
\* the default components, their intervals scaled down
default_components(name) ==
    IF name = "Amortiguadores"
    THEN [hours_interval |-> 1, km_interval |-> 1, days_interval |-> 2]
    ELSE [hours_interval |-> None, km_interval |-> None, days_interval |-> 1]

\* ComponentRecord(component, service_date, service_hours, service_km)
ComponentRecord(component, service_date, service_hours, service_km) ==
    [hours_interval |-> component.hours_interval,
     km_interval |-> component.km_interval,
     days_interval |-> component.days_interval,
     last_service_date |-> service_date,
     last_service_hours |-> service_hours,
     last_service_km |-> service_km]

\* Equipment(id, description) followed by register_component(comp) for each
\* default component: the record is dated today at the current readings
NewEquipment(today) ==
    [horometro |-> 0, odometro |-> 0, status |-> "operativo",
     components |-> [c \in CompNames |->
                        ComponentRecord(default_components(c), today, 0, 0)]]

\* Equipment(id, description): the dataclass defaults, no component yet
Equipment == [horometro |-> 0, odometro |-> 0, status |-> "operativo",
              components |-> <<>>]

\* Equipment.register_component(component, service_date, service_hours,
\* service_km): an argument left out is today or the current reading; the
\* record replaces the one the name had
register_component(equipment, name, component, service_date, service_hours, service_km, today) ==
    LET rec == ComponentRecord(component,
                   IF service_date = None THEN today ELSE service_date,
                   IF service_hours = None THEN equipment.horometro
                                           ELSE service_hours,
                   IF service_km = None THEN equipment.odometro ELSE service_km)
    IN  [equipment EXCEPT !.components =
            [c \in DOMAIN equipment.components \cup {name} |->
                IF c = name THEN rec ELSE equipment.components[c]]]

\* WorkOrder(equipment_id, component_name, due_date, reason): the dataclass
\* defaults, plus the attributes the app attaches later, absent at first.
\* created_at is left out: nothing reads it back.
WorkOrder(id, equipment_id, component_name, due_date, reason, now) ==
    [id |-> id, equipment_id |-> equipment_id, component_name |-> component_name,
     due_date |-> due_date, reason |-> reason, status |-> "pendiente",
     completed_at |-> None,
     classification |-> "", start_time |-> None]

\* a second completion reopens the order
mark_completed_reopen(order, now) ==
    IF order.status = "completada"
    THEN [order EXCEPT !.status = "pendiente", !.completed_at = None]
    ELSE [order EXCEPT !.status = "completada", !.completed_at = now]

\* WorkOrder.mark_completed()
mark_completed(order, now) ==
    [order EXCEPT !.status = "completada", !.completed_at = now]

----------------------------------------------------------------------------
(* Scheduler.check_due_maintenance *)

evaluable_any(status) == TRUE

\* line 275: the statuses of equipment in service
evaluable(status) == status \in {"operativo", "disponible", "en servicio"}

already_pending_never(orders, equipment_id, component_name) == FALSE

\* lines 281-282: an order for the pair is pending
already_pending(orders, equipment_id, component_name) ==
    \E i \in DOMAIN orders :
        /\ orders[i].equipment_id = equipment_id
        /\ orders[i].component_name = component_name
        /\ orders[i].status = "pendiente"

\* the (equipment, component) pairs in the order the two loops visit them
RECURSIVE Flatten(_)
Flatten(ss) == IF ss = <<>> THEN <<>> ELSE Head(ss) \o Flatten(Tail(ss))

\* only the first component of each equipment is looked at
VisitOrder_first_component(fl) ==
    Flatten([i \in DOMAIN EqSeq |->
        IF EqSeq[i] \in DOMAIN fl /\ evaluable(fl[EqSeq[i]].status)
        THEN LET comps == SelectSeq(CompSeq,
                              LAMBDA c : c \in DOMAIN fl[EqSeq[i]].components)
             IN  IF comps = <<>> THEN <<>> ELSE << <<EqSeq[i], comps[1]>> >>
        ELSE <<>>])

VisitOrder(fl) ==
    Flatten([i \in DOMAIN EqSeq |->
        IF EqSeq[i] \in DOMAIN fl /\ evaluable(fl[EqSeq[i]].status)
        THEN LET comps == SelectSeq(CompSeq,
                              LAMBDA c : c \in DOMAIN fl[EqSeq[i]].components)
             IN  [j \in DOMAIN comps |-> <<EqSeq[i], comps[j]>>]
        ELSE <<>>])

\* lines 277-285 over the pairs still to visit; acc = [orders, due_orders, n]
\* with n the number of ids drawn
RECURSIVE CheckLoop(_, _, _, _, _, _)
CheckLoop(pairs, fl, acc, reference_date, now, first_id) ==
    IF pairs = <<>> THEN acc
    ELSE LET eq_id == Head(pairs)[1]
             name == Head(pairs)[2]
             eq == fl[eq_id]
             res == is_due(eq.components[name], reference_date,
                           eq.horometro, eq.odometro)
             order == WorkOrder(first_id + acc.n, eq_id, name,
                                reference_date, res[2], now)
             acc2 == IF res[1] /\ ~already_pending(acc.orders, eq_id, name)
                     THEN [orders |-> Append(acc.orders, order),
                           due_orders |-> Append(acc.due_orders, order),
                           n |-> acc.n + 1]
                     ELSE acc
         IN  CheckLoop(Tail(pairs), fl, acc2, reference_date, now, first_id)

check_due_maintenance_backlog(s, reference_date, now, first_id) ==
    LET acc == CheckLoop(VisitOrder(s.fleet), s.fleet,
                         [orders |-> s.pending_orders, due_orders |-> <<>>, n |-> 0],
                         reference_date, now, first_id)
    IN  [s |-> [s EXCEPT !.pending_orders = acc.orders],
         val |-> SelectSeq(acc.orders, LAMBDA o : o.status = "pendiente"),
         n |-> acc.n]

\* the call: the state after it, the list it returns, the ids it drew
check_due_maintenance(s, reference_date, now, first_id) ==
    LET acc == CheckLoop(VisitOrder(s.fleet), s.fleet,
                         [orders |-> s.pending_orders, due_orders |-> <<>>, n |-> 0],
                         reference_date, now, first_id)
    IN  [s |-> [s EXCEPT !.pending_orders = acc.orders],
         val |-> acc.due_orders,
         n |-> acc.n]

----------------------------------------------------------------------------
(* Scheduler.complete_order *)

\* index of the first order with this id, 0 if none (the for loop, line 294)
FindOrder(orders, order_id) ==
    IF \E i \in DOMAIN orders : orders[i].id = order_id
    THEN CHOOSE i \in DOMAIN orders :
            /\ orders[i].id = order_id
            /\ \A j \in 1..(i - 1) : orders[j].id # order_id
    ELSE 0

\* the record is dated by the order's due date
rebaseline_at_due_date(record, order, equipment) ==
    [record EXCEPT !.last_service_date = order.due_date,
                   !.last_service_hours = equipment.horometro,
                   !.last_service_km = equipment.odometro]

\* the date is reset but the readings are left at the last service
rebaseline_date_only(record, order, equipment) ==
    [record EXCEPT !.last_service_date = DateOf(order.completed_at)]

\* the date and the hours are reset and the km are left at the last service
rebaseline_keeps_km(record, order, equipment) ==
    [record EXCEPT !.last_service_date = DateOf(order.completed_at),
                   !.last_service_hours = equipment.horometro]

\* lines 300-302
rebaseline(record, order, equipment) ==
    [record EXCEPT !.last_service_date = DateOf(order.completed_at),
                   !.last_service_hours = equipment.horometro,
                   !.last_service_km = equipment.odometro]

\* the order is marked completed and the record is left as it was
complete_order_mark_only(s, order_id, now) ==
    LET i == FindOrder(s.pending_orders, order_id)
    IN  IF i = 0 THEN [s |-> s, val |-> None, raised |-> "", found |-> FALSE]
        ELSE [s |-> [s EXCEPT !.pending_orders[i] = mark_completed(@, now)],
              val |-> None, raised |-> "", found |-> TRUE]

\* an id that matches no order completes the oldest pending order
complete_order_oldest_if_unmatched(s, order_id, now) ==
    LET i == FindOrder(s.pending_orders, order_id)
        open == {k \in DOMAIN s.pending_orders :
                    s.pending_orders[k].status = "pendiente"}
    IN  IF i = 0
        THEN [s |-> IF open = {} THEN s
                    ELSE [s EXCEPT !.pending_orders[
                             CHOOSE k \in open : \A j \in open : k <= j]
                                 = mark_completed(@, now)],
              val |-> None, raised |-> "", found |-> FALSE]
        ELSE
        LET order == mark_completed(s.pending_orders[i], now)
            s1 == [s EXCEPT !.pending_orders[i] = order]
        IN  IF order.equipment_id \notin DOMAIN s.fleet
               \/ order.component_name
                     \notin DOMAIN s.fleet[order.equipment_id].components
            THEN [s |-> s1, val |-> None, raised |-> "KeyError", found |-> TRUE]
            ELSE
            LET equipment == s.fleet[order.equipment_id]
                record == equipment.components[order.component_name]
            IN  [s |-> [s1 EXCEPT
                          !.fleet[order.equipment_id].components[order.component_name]
                              = rebaseline(record, order, equipment)],
                 val |-> None, raised |-> "", found |-> TRUE]

\* every record of the order's equipment is rebaselined
complete_order_whole_equipment(s, order_id, now) ==
    LET i == FindOrder(s.pending_orders, order_id)
    IN  IF i = 0 THEN [s |-> s, val |-> None, raised |-> "", found |-> FALSE]
        ELSE
        LET order == mark_completed(s.pending_orders[i], now)
            s1 == [s EXCEPT !.pending_orders[i] = order]
        IN  IF order.equipment_id \notin DOMAIN s.fleet
               \/ order.component_name
                     \notin DOMAIN s.fleet[order.equipment_id].components
            THEN [s |-> s1, val |-> None, raised |-> "KeyError", found |-> TRUE]
            ELSE
            LET equipment == s.fleet[order.equipment_id]
            IN  [s |-> [s1 EXCEPT !.fleet[order.equipment_id].components =
                          [c \in DOMAIN @ |-> rebaseline(@[c], order, equipment)]],
                 val |-> None, raised |-> "", found |-> TRUE]

\* the call: the state after it, what it returns, what it raises.  The
\* order is marked before the lookups, so a KeyError leaves it completed.
complete_order(s, order_id, now) ==
    LET i == FindOrder(s.pending_orders, order_id)
    IN  IF i = 0 THEN [s |-> s, val |-> None, raised |-> "", found |-> FALSE]
        ELSE
        LET order == mark_completed(s.pending_orders[i], now)
            s1 == [s EXCEPT !.pending_orders[i] = order]
        IN  IF order.equipment_id \notin DOMAIN s.fleet
               \/ order.component_name
                     \notin DOMAIN s.fleet[order.equipment_id].components
            THEN [s |-> s1, val |-> None, raised |-> "KeyError", found |-> TRUE]
            ELSE
            LET equipment == s.fleet[order.equipment_id]
                record == equipment.components[order.component_name]
            IN  [s |-> [s1 EXCEPT
                          !.fleet[order.equipment_id].components[order.component_name]
                              = rebaseline(record, order, equipment)],
                 val |-> None, raised |-> "", found |-> TRUE]

----------------------------------------------------------------------------
(* Inventory: the record [stock, part_mapping] of its two dicts.  _stock    *)
(* maps a part name to (current stock, minimum stock), _part_mapping to the *)
(* list of component names the part fits; each is a function over the names *)
(* it holds.                                                                *)

PartSeq == <<"Amortiguador delantero", "Foco delantero">>
UnknownPart == "X"
PartNames == Range(PartSeq) \cup {UnknownPart}

\* Inventory(): both dicts empty
Inventory == [stock |-> <<>>, part_mapping |-> <<>>]

\* d[key] = value on a dict
dict_set(d, key, value) ==
    [k \in DOMAIN d \cup {key} |-> IF k = key THEN value ELSE d[k]]

\* Inventory.add_part(part_name, initial_stock, min_stock, fits_components)
add_part(inv, part_name, initial_stock, min_stock, fits_components) ==
    [stock |-> dict_set(inv.stock, part_name, <<initial_stock, min_stock>>),
     part_mapping |-> dict_set(inv.part_mapping, part_name, fits_components)]

\* self._stock.get(part_name, (0, 0))
stock_get(inv, part_name) ==
    IF part_name \in DOMAIN inv.stock THEN inv.stock[part_name] ELSE <<0, 0>>

\* Inventory.get_stock(part_name)
get_stock(inv, part_name) == stock_get(inv, part_name)[1]

\* an insufficient reservation takes what is left
reserve_part_takes_rest(inv, part_name, quantity) ==
    LET current == stock_get(inv, part_name)[1]
        min_stock == stock_get(inv, part_name)[2]
    IN  IF current >= quantity
        THEN [inv |-> [inv EXCEPT !.stock = dict_set(@, part_name,
                                      <<current - quantity, min_stock>>)],
              val |-> TRUE, raised |-> ""]
        ELSE [inv |-> [inv EXCEPT !.stock = dict_set(@, part_name,
                                      <<0, min_stock>>)],
              val |-> FALSE, raised |-> ""]

\* a reservation of everything that is left is refused
reserve_part_strict(inv, part_name, quantity) ==
    LET current == stock_get(inv, part_name)[1]
        min_stock == stock_get(inv, part_name)[2]
    IN  IF current > quantity
        THEN [inv |-> [inv EXCEPT !.stock = dict_set(@, part_name,
                                      <<current - quantity, min_stock>>)],
              val |-> TRUE, raised |-> ""]
        ELSE [inv |-> inv, val |-> FALSE, raised |-> ""]

\* the quantity is taken without looking at the stock
reserve_part_unchecked(inv, part_name, quantity) ==
    LET current == stock_get(inv, part_name)[1]
        min_stock == stock_get(inv, part_name)[2]
    IN  [inv |-> [inv EXCEPT !.stock = dict_set(@, part_name,
                                 <<current - quantity, min_stock>>)],
         val |-> TRUE, raised |-> ""]

\* Inventory.reserve_part(part_name, quantity): the inventory after the
\* call, what it returns, what it raises
reserve_part(inv, part_name, quantity) ==
    LET current == stock_get(inv, part_name)[1]
        min_stock == stock_get(inv, part_name)[2]
    IN  IF current >= quantity
        THEN [inv |-> [inv EXCEPT !.stock = dict_set(@, part_name,
                                      <<current - quantity, min_stock>>)],
              val |-> TRUE, raised |-> ""]
        ELSE [inv |-> inv, val |-> FALSE, raised |-> ""]

\* _stock.items() iterates in insertion order: the seeded parts, then any
\* part added later; adding a part again keeps its place
PartOrder == PartSeq \o <<UnknownPart>>

\* only the parts below their minimum are listed
low_stock_alerts_below(inv) ==
    SelectSeq(SelectSeq(PartOrder, LAMBDA part : part \in DOMAIN inv.stock),
              LAMBDA part : inv.stock[part][1] < inv.stock[part][2])

\* Inventory.low_stock_alerts()
low_stock_alerts(inv) ==
    SelectSeq(SelectSeq(PartOrder, LAMBDA part : part \in DOMAIN inv.stock),
              LAMBDA part : inv.stock[part][1] <= inv.stock[part][2])

\* the parts example_usage and init_state add first, their stock scaled down
SeedInventory ==
    add_part(add_part(Inventory, PartSeq[1], 1, 0, <<CompSeq[1]>>),
             PartSeq[2], MaxStock, 1, <<CompSeq[2]>>)

\* no concurrent caller
NoThreads == <<>>

----------------------------------------------------------------------------
(* FailureLog.entries: the tuples (timestamp, equipment_id, component_name, *)
(* description, repair_time_hours) in the order they were appended.  The    *)
(* description plays no part in any computation and is left out.            *)

\* FailureLog.log_failure; now is what datetime.datetime.now() reads
log_failure(entries, equipment_id, component_name, repair_time_hours, now) ==
    Append(entries, [timestamp |-> now, equipment_id |-> equipment_id,
                     component_name |-> component_name,
                     repair_time_hours |-> repair_time_hours])

----------------------------------------------------------------------------
(* Persistence: serialize_session_state, save_data, load_data.  The session *)
(* state is the record s = [fleet, inventory, pending_orders, work_requests,*)
(* failure_log].                                                            *)

\* date.isoformat() / datetime.isoformat() and fromisoformat(): the JSON
\* document holds a string, never the date itself; null is the empty tuple
isoformat(d) == <<"iso", d>>
fromisoformat(x) == x[2]
isoformat_opt(d) == IF d = None THEN <<>> ELSE isoformat(d)

\* a string that is no date, and whether fromisoformat accepts a string
NotADate == <<"not a date">>
parses(x) == x # <<>> /\ x[1] = "iso"

St == [fleet |-> fleet, inventory |-> inventory,
       pending_orders |-> pending_orders, work_requests |-> work_requests,
       failure_log |-> failure_log]

\* DATA_FILE: absent; absent in a directory the process cannot write to; a
\* fragment that json.load rejects; a document [kind |-> "doc", ...]; or a
\* document in a file that can be read and no longer written
NoFile == [kind |-> "none"]
Locked == [kind |-> "locked"]
Corrupt == [kind |-> "corrupt"]
ReadOnly(f) == [f EXCEPT !.kind = "readonly"]

\* lines 494-572: the JSON-serialisable document
serialize_session_state(s) ==
    [kind |-> "doc",
     fleet |-> [e \in DOMAIN s.fleet |->
        [horometro |-> s.fleet[e].horometro,
         odometro |-> s.fleet[e].odometro,
         status |-> s.fleet[e].status,
         components |-> [c \in DOMAIN s.fleet[e].components |->
            [s.fleet[e].components[c] EXCEPT
                !.last_service_date = isoformat(@)]]]],
     inventory |-> [part \in DOMAIN s.inventory.stock |->
        [stock |-> s.inventory.stock[part][1],
         min_stock |-> s.inventory.stock[part][2],
         fits_components |->
            IF part \in DOMAIN s.inventory.part_mapping
            THEN s.inventory.part_mapping[part] ELSE <<>>]],
     pending_orders |-> [i \in DOMAIN s.pending_orders |->
        [s.pending_orders[i] EXCEPT
            !.due_date = isoformat(@),
            !.completed_at = isoformat_opt(@),
            !.start_time = isoformat_opt(@)]],
     work_requests |-> [i \in DOMAIN s.work_requests |->
        [s.work_requests[i] EXCEPT !.date = isoformat(@)]],
     failures |-> [i \in DOMAIN s.failure_log |->
        [s.failure_log[i] EXCEPT !.timestamp = isoformat(@)]]]

\* save_data: open(DATA_FILE, "w") fails where the file cannot be written,
\* leaving it as it was.  Otherwise the file is truncated and json.dump
\* writes the document; a work request carries created_at as a datetime
\* (line 897, copied by **req at line 557), which json cannot encode: the
\* dump stops there and the file is left as a fragment.  Either way the
\* exception is swallowed.
save_data(s, f) ==
    IF f.kind \in {"locked", "readonly"} THEN f
    ELSE LET data == serialize_session_state(s)
         IN  IF data.work_requests # <<>> THEN Corrupt ELSE data

\* lines 620-641: the equipment of the file in its order; date.fromisoformat
\* of a component's last_service_date is not guarded, so the first equipment
\* with an unparsable one raises ValueError before it is stored
load_fleet(fleet_data) ==
    LET ids == SelectSeq(EqSeq, LAMBDA e : e \in DOMAIN fleet_data)
        bad == {i \in DOMAIN ids :
                  \E c \in DOMAIN fleet_data[ids[i]].components :
                     ~parses(fleet_data[ids[i]].components[c].last_service_date)}
        n == IF bad = {} THEN Len(ids)
             ELSE (CHOOSE i \in bad : \A j \in bad : i <= j) - 1
    IN  [fleet |-> [e \in {ids[i] : i \in 1..n} |->
                      [horometro |-> fleet_data[e].horometro,
                       odometro |-> fleet_data[e].odometro,
                       status |-> fleet_data[e].status,
                       components |-> [c \in DOMAIN fleet_data[e].components |->
                          [fleet_data[e].components[c] EXCEPT
                              !.last_service_date = fromisoformat(@)]]]],
         raised |-> IF bad = {} THEN "" ELSE "ValueError"]

\* lines 643-651: Inventory() and an add_part for each part of the file
load_inventory(inv_data) ==
    [stock |-> [part \in DOMAIN inv_data |->
                  <<inv_data[part].stock, inv_data[part].min_stock>>],
     part_mapping |-> [part \in DOMAIN inv_data |->
                         inv_data[part].fits_components]]

\* lines 654-672: WorkOrder(..., classification=...) is a TypeError, the
\* dataclass has no such field; raised for the first order of the file
load_orders(orders_data) ==
    IF orders_data = <<>> THEN [orders |-> <<>>, raised |-> ""]
    ELSE [orders |-> <<>>, raised |-> "TypeError"]

\* lines 675-683: a date that does not parse is kept as the string it is
load_requests(requests_data) ==
    [i \in DOMAIN requests_data |->
        [requests_data[i] EXCEPT
            !.date = IF parses(@) THEN fromisoformat(@) ELSE @]]

\* lines 685-693: FailureLog() and the entries of the file in their order; a
\* timestamp that does not parse becomes now, and an entry with a field
\* missing raises KeyError after the entries before it were appended
load_failures(failures_data, now) ==
    LET bad == {i \in DOMAIN failures_data :
                  "equipment_id" \notin DOMAIN failures_data[i]}
        n == IF bad = {} THEN Len(failures_data)
             ELSE (CHOOSE i \in bad : \A j \in bad : i <= j) - 1
    IN  [entries |-> [i \in 1..n |->
                        [failures_data[i] EXCEPT
                            !.timestamp = IF parses(@) THEN fromisoformat(@)
                                          ELSE now]],
         raised |-> IF bad = {} THEN "" ELSE "KeyError"]

\* load_data as init_state calls it (its exceptions swallowed, line 315): no
\* file or an unparsable one changes nothing; otherwise the session's fleet,
\* inventory, scheduler, requests and failure log are replaced one after the
\* other, up to the statement that raises
load_data(s, f, now) ==
    IF f.kind \notin {"doc", "readonly"} THEN s
    ELSE
    LET lf == load_fleet(f.fleet)
        lo == load_orders(f.pending_orders)
        lfail == load_failures(f.failures, now)
        s1 == [s EXCEPT !.fleet = lf.fleet]
        s2 == [s1 EXCEPT !.inventory = load_inventory(f.inventory),
                         !.pending_orders = lo.orders]
        s3 == [s2 EXCEPT !.work_requests = load_requests(f.work_requests),
                         !.failure_log = lfail.entries]
    IN  IF lf.raised # "" THEN s1
        ELSE IF lo.raised # "" THEN s2
        ELSE s3

----------------------------------------------------------------------------
(* Initial state: init_state's seeding on first launch (lines 189-287), or  *)
(* example_usage's set-up (lines 365-379); no data file yet.                *)

Today == DateOf(clock)

\* ret after an operation that returns nothing the checks read
NoRet == [op |-> "none"]

SeedFleet == [e \in EqIds |-> NewEquipment(0)]

Init ==
    /\ fleet = SeedFleet
    /\ pending_orders = <<>>
    /\ work_requests = <<>>
    /\ file = NoFile
    /\ clock = 0
    /\ uuid_counter = 0
    /\ ret = NoRet
    /\ hor_at_creation = <<>>
    /\ inventory = SeedInventory
    /\ failure_log = <<>>
    /\ threads = NoThreads

SetSt(s) ==
    /\ fleet' = s.fleet
    /\ inventory' = s.inventory
    /\ pending_orders' = s.pending_orders
    /\ work_requests' = s.work_requests
    /\ failure_log' = s.failure_log

\* the history of the orders in new_orders, created on the fleet fl
Created(new_orders, fl) ==
    hor_at_creation \o
        [i \in DOMAIN new_orders |-> fl[new_orders[i].equipment_id].horometro]

\* a day passes
next_day ==
    /\ Today < MaxDay
    /\ clock' = clock + TicksPerDay
    /\ ret' = NoRet
    /\ UNCHANGED <<fleet, pending_orders, work_requests, file, uuid_counter,
                   hor_at_creation>>

----------------------------------------------------------------------------
(* The library, called directly *)

\* the reading is assigned where it should be added to
update_horometro_assign(e, additional_hours) ==
    /\ fleet[e].horometro + additional_hours \in 0..MaxCounter
    /\ fleet' = [fleet EXCEPT ![e].horometro = additional_hours]
    /\ ret' = NoRet
    /\ UNCHANGED <<pending_orders, work_requests, file, clock, uuid_counter,
                   hor_at_creation>>

\* Equipment.update_horometro(additional_hours)
update_horometro(e, additional_hours) ==
    /\ fleet[e].horometro + additional_hours \in 0..MaxCounter
    /\ fleet' = [fleet EXCEPT ![e].horometro = @ + additional_hours]
    /\ ret' = NoRet
    /\ UNCHANGED <<pending_orders, work_requests, file, clock, uuid_counter,
                   hor_at_creation>>

\* Equipment.update_odometro(additional_km)
update_odometro(e, additional_km) ==
    /\ fleet[e].odometro + additional_km \in 0..MaxCounter
    /\ fleet' = [fleet EXCEPT ![e].odometro = @ + additional_km]
    /\ ret' = NoRet
    /\ UNCHANGED <<pending_orders, work_requests, file, clock, uuid_counter,
                   hor_at_creation>>

\* Equipment.set_status(new_status)
set_status(e, new_status) ==
    /\ fleet' = [fleet EXCEPT ![e].status = new_status]
    /\ ret' = NoRet
    /\ UNCHANGED <<pending_orders, work_requests, file, clock, uuid_counter,
                   hor_at_creation>>

\* what a check_due_maintenance call leaves in ret: the reference date, the
\* orders at entry, the list returned, and whether the previous operation was
\* the same call with the same date on the state that one left
CheckRet(s, reference_date, r, same_state) ==
    [op |-> "check_due_maintenance", date |-> reference_date,
     before |-> s.pending_orders, val |-> r.val,
     repeat |-> /\ ret.op = "check_due_maintenance"
                /\ ret.date = reference_date
                /\ same_state]

\* Scheduler.check_due_maintenance(reference_date); None means today
check_due_maintenance_call(reference_date) ==
    /\ LET d == IF reference_date = None THEN Today ELSE reference_date
           r == check_due_maintenance(St, d, clock, uuid_counter + 1)
       IN  /\ uuid_counter + r.n <= MaxIds
           /\ SetSt(r.s)
           /\ uuid_counter' = uuid_counter + r.n
           /\ ret' = CheckRet(St, d, r, TRUE)
           /\ hor_at_creation' = Created(r.val, fleet)
    /\ UNCHANGED <<file, clock>>

\* what a complete_order call leaves in ret
CompleteRet(s, order_id, r) ==
    LET i == FindOrder(s.pending_orders, order_id)
    IN  [op |-> "complete_order", order_id |-> order_id, found |-> r.found,
         val |-> r.val, raised |-> r.raised,
         status_before |-> IF i = 0 THEN "" ELSE s.pending_orders[i].status]

\* Scheduler.complete_order(order_id), any id
complete_order_call(order_id) ==
    /\ LET r == complete_order(St, order_id, clock)
       IN  /\ SetSt(r.s)
           /\ ret' = CompleteRet(St, order_id, r)
    /\ UNCHANGED <<file, clock, uuid_counter, hor_at_creation>>

----------------------------------------------------------------------------
(* The Streamlit app.  Every interaction reruns the script: main() calls    *)
(* init_state(), which ends with load_data(); then the handler of the       *)
(* pressed button runs, and ends with save_data().                          *)

Loaded == load_data(St, file, clock)

\* init_state in a session that has nothing yet (lines 189-287): the seeds,
\* the equipment registered today
FreshSession(today) ==
    [fleet |-> [e \in EqIds |-> NewEquipment(today)],
     inventory |-> SeedInventory,
     pending_orders |-> <<>>, work_requests |-> <<>>, failure_log |-> <<>>]

\* a new session opens (another browser, or the page reloaded): init_state
\* seeds it and, as always, ends with load_data
new_session ==
    /\ SetSt(load_data(FreshSession(Today), file, clock))
    /\ ret' = [op |-> "init_state"]
    /\ UNCHANGED <<file, clock, uuid_counter, hor_at_creation>>

\* a rerun with no button pressed (the 5 s autorefresh, "Refrescar ahora")
rerun ==
    /\ SetSt(Loaded)
    /\ ret' = NoRet
    /\ UNCHANGED <<file, clock, uuid_counter, hor_at_creation>>

\* update_readings_form, "Actualizar lecturas" (lines 366-370)
update_readings_form(selected, add_hours, add_km) ==
    /\ selected \in DOMAIN Loaded.fleet
    /\ Loaded.fleet[selected].horometro + add_hours <= MaxCounter
    /\ Loaded.fleet[selected].odometro + add_km <= MaxCounter
    /\ LET s == [Loaded EXCEPT !.fleet[selected].horometro = @ + add_hours,
                               !.fleet[selected].odometro = @ + add_km]
       IN  /\ SetSt(s)
           /\ file' = save_data(s, file)
    /\ ret' = NoRet
    /\ UNCHANGED <<clock, uuid_counter, hor_at_creation>>

\* maintenance_view, "Registrar falla" (lines 1580-1583)
log_failure_form(eq_id, comp_name, repair_hours) ==
    /\ eq_id \in DOMAIN Loaded.fleet
    /\ Len(Loaded.failure_log) < MaxEntries
    /\ LET s == [Loaded EXCEPT !.failure_log =
                    log_failure(@, eq_id, comp_name, repair_hours, clock)]
       IN  /\ SetSt(s)
           /\ file' = save_data(s, file)
    /\ ret' = NoRet
    /\ UNCHANGED <<clock, uuid_counter, hor_at_creation>>

\* maintenance_view, "Anadir repuesto" (lines 1541-1546)
add_part_form(name, initial, min_stock) ==
    /\ LET s == [Loaded EXCEPT !.inventory =
                    add_part(@, name, initial, min_stock, <<>>)]
       IN  /\ SetSt(s)
           /\ file' = save_data(s, file)
    /\ ret' = NoRet
    /\ UNCHANGED <<clock, uuid_counter, hor_at_creation>>

\* operations_view, "Enviar solicitud" (lines 885-909)
submit_request(eq_sel, comp_sel, classification) ==
    /\ uuid_counter < MaxIds
    /\ eq_sel \in DOMAIN Loaded.fleet
    /\ LET req == [id |-> uuid_counter + 1, equipment_id |-> eq_sel,
                   component_name |-> comp_sel,
                   classification |-> classification,
                   date |-> Today, status |-> "pendiente",
                   created_at |-> clock]
           s1 == [Loaded EXCEPT !.work_requests = Append(@, req)]
           s == IF s1.fleet[eq_sel].status = "operativo"
                THEN [s1 EXCEPT !.fleet[eq_sel].status = "en solicitud"]
                ELSE s1
       IN  /\ SetSt(s)
           /\ file' = save_data(s, file)
    /\ uuid_counter' = uuid_counter + 1
    /\ hor_at_creation' = Append(hor_at_creation, None)
    /\ ret' = NoRet
    /\ UNCHANGED clock

\* lines 1057-1073 and 1385-1400: the order both forms build
FormOrder(id, equipment_id, component_name, due_date, reason, classification) ==
    [WorkOrder(id, equipment_id, component_name, due_date, reason, clock)
        EXCEPT !.classification = classification]

\* the request is converted and left pending
process_work_requests_leaves_pending(i, new_class, due_date) ==
    /\ uuid_counter < MaxIds
    /\ i \in DOMAIN Loaded.work_requests
    /\ Loaded.work_requests[i].status = "pendiente"
    /\ LET req == Loaded.work_requests[i]
           ot == FormOrder(uuid_counter + 1, req.equipment_id, req.component_name,
                           due_date, <<"Solicitud de operaciones">>, new_class)
           s1 == [Loaded EXCEPT !.pending_orders = Append(@, ot)]
           s2 == IF req.equipment_id \in DOMAIN s1.fleet
                 THEN [s1 EXCEPT !.fleet[req.equipment_id].status = "en mantenimiento"]
                 ELSE s1
           s3 == [s2 EXCEPT !.failure_log =
                      log_failure(@, req.equipment_id, req.component_name, 0,
                                  clock)]
           s == [s3 EXCEPT !.work_requests[i].classification = new_class]
       IN  /\ SetSt(s)
           /\ file' = save_data(s, file)
           /\ hor_at_creation' = Created(<<ot>>, Loaded.fleet)
    /\ uuid_counter' = uuid_counter + 1
    /\ ret' = NoRet
    /\ UNCHANGED clock

\* process_work_requests, "Convertir a OT" (lines 1048-1097)
process_work_requests(i, new_class, due_date) ==
    /\ uuid_counter < MaxIds
    /\ i \in DOMAIN Loaded.work_requests
    /\ Loaded.work_requests[i].status = "pendiente"
    /\ LET req == Loaded.work_requests[i]
           ot == FormOrder(uuid_counter + 1, req.equipment_id, req.component_name,
                           due_date, <<"Solicitud de operaciones">>, new_class)
           s1 == [Loaded EXCEPT !.pending_orders = Append(@, ot)]
           s2 == IF req.equipment_id \in DOMAIN s1.fleet
                 THEN [s1 EXCEPT !.fleet[req.equipment_id].status = "en mantenimiento"]
                 ELSE s1
           s3 == [s2 EXCEPT !.failure_log =
                      log_failure(@, req.equipment_id, req.component_name, 0,
                                  clock)]
           s == [s3 EXCEPT !.work_requests[i].status = "procesada",
                           !.work_requests[i].classification = new_class]
       IN  /\ SetSt(s)
           /\ file' = save_data(s, file)
           /\ hor_at_creation' = Created(<<ot>>, Loaded.fleet)
    /\ uuid_counter' = uuid_counter + 1
    /\ ret' = NoRet
    /\ UNCHANGED clock

\* manual_order_form, "Crear OT" (lines 1375-1410)
manual_order_form(eq_sel, comp_sel, classification, due_date) ==
    /\ uuid_counter < MaxIds
    /\ eq_sel \in DOMAIN Loaded.fleet
    /\ LET ot == FormOrder(uuid_counter + 1, eq_sel, comp_sel, due_date,
                           <<"OT programada manualmente">>, classification)
           s1 == [Loaded EXCEPT !.pending_orders = Append(@, ot)]
           s == [s1 EXCEPT !.fleet[eq_sel].status = "en mantenimiento"]
       IN  /\ SetSt(s)
           /\ file' = save_data(s, file)
           /\ hor_at_creation' = Created(<<ot>>, Loaded.fleet)
    /\ uuid_counter' = uuid_counter + 1
    /\ ret' = NoRet
    /\ UNCHANGED clock

\* schedule_automatic_maintenance, "Verificar ordenes programadas"
\* (lines 1324-1328): saved only when orders were generated
schedule_automatic_maintenance ==
    /\ LET r == check_due_maintenance(Loaded, Today, clock, uuid_counter + 1)
       IN  /\ uuid_counter + r.n <= MaxIds
           /\ SetSt(r.s)
           /\ file' = IF r.val # <<>> THEN save_data(r.s, file) ELSE file
           /\ uuid_counter' = uuid_counter + r.n
           /\ ret' = CheckRet(Loaded, Today, r, Loaded = St)
           /\ hor_at_creation' = Created(r.val, Loaded.fleet)
    /\ UNCHANGED clock

\* manage_orders, "Guardar cambios" (lines 1130-1140)
manage_orders_save(i, new_class, new_due) ==
    /\ i \in DOMAIN Loaded.pending_orders
    /\ Loaded.pending_orders[i].status = "pendiente"
    /\ LET s == [Loaded EXCEPT !.pending_orders[i].classification = new_class,
                               !.pending_orders[i].due_date = new_due]
       IN  /\ SetSt(s)
           /\ file' = save_data(s, file)
    /\ ret' = NoRet
    /\ UNCHANGED <<clock, uuid_counter, hor_at_creation>>

\* lines 1200-1215 and 1288-1301: the times are set on the order, the
\* equipment put back to operativo, then the scheduler finalizes the order
CloseOrder(s, i, start_time, end_time, now) ==
    LET ot == s.pending_orders[i]
        start_dt == ot.due_date * TicksPerDay + start_time
        end_dt == Max(ot.due_date * TicksPerDay + end_time, start_dt)
        s1 == [s EXCEPT !.pending_orders[i].start_time = start_dt,
                        !.pending_orders[i].completed_at = end_dt,
                        !.pending_orders[i].status = "completada"]
        s2 == IF ot.equipment_id \in DOMAIN s1.fleet
              THEN [s1 EXCEPT !.fleet[ot.equipment_id].status = "operativo"]
              ELSE s1
    IN  complete_order(s2, ot.id, now)

\* "Marcar completada" / "Cerrar trabajo": a KeyError out of complete_order
\* ends the script run before save_data
CloseAction(i, start_time, end_time) ==
    /\ i \in DOMAIN Loaded.pending_orders
    /\ Loaded.pending_orders[i].status = "pendiente"
    /\ LET r == CloseOrder(Loaded, i, start_time, end_time, clock)
       IN  /\ SetSt(r.s)
           /\ file' = IF r.raised = "" THEN save_data(r.s, file) ELSE file
           /\ ret' = CompleteRet(Loaded, Loaded.pending_orders[i].id, r)
    /\ UNCHANGED <<clock, uuid_counter, hor_at_creation>>

\* manage_orders, "Marcar completada" (lines 1187-1224)
manage_orders(i, start_time, end_time) ==
    CloseAction(i, start_time, end_time)

\* mechanic_orders, "Cerrar trabajo" (lines 1275-1310)
mechanic_orders(i, start_time, end_time) ==
    CloseAction(i, start_time, end_time)

----------------------------------------------------------------------------
(* Inputs and the next-state relation *)

Deltas == 0..MaxCounter
\* the equipment whose readings are updated; the others stay parked
Metered == {EqSeq[1]}
\* the forms' date input, left at its default
DueDates == {Today}
TimesOfDay == 0..(TicksPerDay - 1)
\* the component of a form: a registered one, or free text
FormComps == {CompSeq[1], FreeText}
OrderIds == 1..(MaxIds + 1)

\* the scheduling engine, called directly as example_usage does; the
\* odometer advances a kilometre at a time
Next ==
    /\ \/ next_day
       \/ \E e \in Metered, d \in Deltas : update_horometro(e, d)
       \/ \E e \in Metered : update_odometro(e, Res)
       \/ \E e \in Metered, st \in Statuses : set_status(e, st)
       \/ \E d \in {None, Today} : check_due_maintenance_call(d)
       \/ \E id \in OrderIds : complete_order_call(id)
    /\ UNCHANGED others

Spec == Init /\ [][Next]_vars

\* the Streamlit app: one script run per step, in a deployment whose data
\* file can be written or in one where it cannot
AppInit ==
    /\ fleet = SeedFleet
    /\ pending_orders = <<>>
    /\ work_requests = <<>>
    /\ file \in {NoFile, Locked}
    /\ clock = 0
    /\ uuid_counter = 0
    /\ ret = NoRet
    /\ hor_at_creation = <<>>
    /\ inventory = SeedInventory
    /\ failure_log = <<>>
    /\ threads = NoThreads

AppNext ==
    /\ \/ next_day /\ UNCHANGED <<inventory, failure_log>>
       \/ rerun
       \/ \E e \in Metered, h \in Deltas : update_readings_form(e, h, 0)
       \/ \E e \in Metered, c \in FormComps, cl \in FormClass :
             submit_request(e, c, cl)
       \/ \E i \in 1..MaxIds, cl \in Reclass, d \in DueDates :
             process_work_requests(i, cl, d)
       \/ \E e \in Metered, c \in FormComps, cl \in FormClass, d \in DueDates :
             manual_order_form(e, c, cl, d)
       \/ schedule_automatic_maintenance
       \/ \E i \in 1..MaxIds, cl \in Reclass, d \in DueDates :
             manage_orders_save(i, cl, d)
       \/ \E i \in 1..MaxIds, t1 \in TimesOfDay, t2 \in TimesOfDay :
             manage_orders(i, t1, t2)
       \/ \E i \in 1..MaxIds, t1 \in TimesOfDay, t2 \in TimesOfDay :
             mechanic_orders(i, t1, t2)
    /\ UNCHANGED threads

AppSpec == AppInit /\ [][AppNext]_vars

TypeOK ==
    /\ Today \in 0..MaxDay
    /\ uuid_counter \in 0..MaxIds
    /\ Len(pending_orders) <= MaxIds

----------------------------------------------------------------------------
(* ComponentRecord.is_due on its own: one record with any intervals, last   *)
(* serviced on day ls at readings ls, asked about any date and readings.    *)

Intervals == {None} \cup 1..MaxInterval
LastService == 0..1
DueReadings == 0..(Res * MaxInterval + 1)
DueDays == 0..(MaxInterval + 1)

DueInit ==
    /\ \E hi \in Intervals, ki \in Intervals, di \in Intervals,
          ls \in LastService :
          fleet = [e \in {EqSeq[1]} |->
                    [horometro |-> 0, odometro |-> 0, status |-> "operativo",
                     components |-> [c \in {CompSeq[1]} |->
                        ComponentRecord([hours_interval |-> hi, km_interval |-> ki,
                                         days_interval |-> di], ls, ls, ls)]]]
    /\ pending_orders = <<>>
    /\ work_requests = <<>>
    /\ file = NoFile
    /\ clock = 0
    /\ uuid_counter = 0
    /\ ret = NoRet
    /\ hor_at_creation = <<>>
    /\ inventory = SeedInventory
    /\ failure_log = <<>>
    /\ threads = NoThreads

\* record.is_due(current_date, current_hours, current_km)
is_due_call(e, c, current_date, current_hours, current_km) ==
    /\ ret' = [op |-> "is_due", record |-> fleet[e].components[c],
               current_date |-> current_date, current_hours |-> current_hours,
               current_km |-> current_km,
               val |-> is_due(fleet[e].components[c], current_date,
                              current_hours, current_km)]
    /\ UNCHANGED <<fleet, pending_orders, work_requests, file, clock,
                   uuid_counter, hor_at_creation>>

DueNext ==
    /\ \E d \in DueDays, h \in DueReadings, k \in DueReadings :
          is_due_call(EqSeq[1], CompSeq[1], d, h, k)
    /\ UNCHANGED others

DueSpec == DueInit /\ [][DueNext]_vars

\* what the last is_due call was asked, dimension by dimension
HoursReached ==
    /\ ret.record.hours_interval # None
    /\ ret.current_hours - ret.record.last_service_hours
          >= Res * ret.record.hours_interval
KmReached ==
    /\ ret.record.km_interval # None
    /\ ret.current_km - ret.record.last_service_km >= Res * ret.record.km_interval
DaysReached ==
    /\ ret.record.days_interval # None
    /\ ret.current_date - ret.record.last_service_date >= ret.record.days_interval

\* C5: thresholds are inclusive.  is_due is true exactly when, in some
\* dimension that has an interval, the difference since the last service has
\* reached the interval (>=); so it is true at exactly the interval and false
\* one step below it when no other dimension triggers.
C5_InclusiveThresholds ==
    ret.op = "is_due" =>
        (ret.val[1] <=> (HoursReached \/ KmReached \/ DaysReached))

\* C5 witness: the hours difference is exactly the interval, nothing else
\* triggers, and the component is due
C5_Witness ==
    /\ ret.op = "is_due"
    /\ ret.record.hours_interval # None
    /\ ret.current_hours - ret.record.last_service_hours
          = Res * ret.record.hours_interval
    /\ ~KmReached /\ ~DaysReached
    /\ ret.val[1]

\* C6: the thresholds are tried in the order hours, km, days and the reason
\* names the first one met, with its difference and its interval.
C6_FirstSatisfiedWins ==
    ret.op = "is_due" =>
        /\ HoursReached =>
              ret.val[2] = <<"Horas alcanzadas",
                             Fmt0(ret.current_hours - ret.record.last_service_hours),
                             ret.record.hours_interval>>
        /\ (~HoursReached /\ KmReached) =>
              ret.val[2] = <<"Kilometros alcanzados",
                             Fmt0(ret.current_km - ret.record.last_service_km),
                             ret.record.km_interval>>
        /\ (~HoursReached /\ ~KmReached /\ DaysReached) =>
              ret.val[2] = <<"Dias alcanzados",
                             ret.current_date - ret.record.last_service_date,
                             ret.record.days_interval>>

\* C6 witness: all three thresholds are met at once and the reason is hours
C6_Witness ==
    /\ ret.op = "is_due"
    /\ HoursReached /\ KmReached /\ DaysReached
    /\ ret.val[2][1] = "Horas alcanzadas"

\* C7: a dimension without an interval never triggers.  With no interval at
\* all the answer is (false, empty reason); a reason never names a dimension
\* that has no interval; the reason is empty exactly when the answer is false.
C7_NoIntervalNeverDue ==
    ret.op = "is_due" =>
        /\ (ret.record.hours_interval = None /\ ret.record.km_interval = None
              /\ ret.record.days_interval = None) => ret.val = <<FALSE, <<>> >>
        /\ (ret.val[2] = <<>>) <=> ~ret.val[1]
        /\ ret.val[1] =>
              /\ ret.val[2][1] = "Horas alcanzadas" => ret.record.hours_interval # None
              /\ ret.val[2][1] = "Kilometros alcanzados" => ret.record.km_interval # None
              /\ ret.val[2][1] = "Dias alcanzados" => ret.record.days_interval # None

\* C7 witness: no interval at all, readings and date far past the last
\* service, and the answer is not due
C7_Witness ==
    /\ ret.op = "is_due"
    /\ ret.record.hours_interval = None /\ ret.record.km_interval = None
    /\ ret.record.days_interval = None
    /\ ret.current_hours - ret.record.last_service_hours >= Res * MaxInterval
    /\ ret.current_km - ret.record.last_service_km >= Res * MaxInterval
    /\ ret.current_date - ret.record.last_service_date >= MaxInterval
    /\ ret.val = <<FALSE, <<>> >>

----------------------------------------------------------------------------
(* Properties of the scheduling engine and of the app *)

\* the pending orders of the pair (e, c) among orders
PendingFor(orders, e, c) ==
    {i \in DOMAIN orders : /\ orders[i].equipment_id = e
                           /\ orders[i].component_name = c
                           /\ orders[i].status = "pendiente"}

\* the order that the last complete_order was asked to complete
Completed == pending_orders[FindOrder(pending_orders, ret.order_id)]

\* the component is past an interval on the date of the last check
DueAtCheck(e, c) ==
    is_due(fleet[e].components[c], ret.date, fleet[e].horometro,
           fleet[e].odometro)[1]

\* C1: at most one pending order exists for each (equipment, component)
\* pair, whatever sequence of automatic checks, manual creations, request
\* conversions and completions led to the state.
C1_AtMostOnePendingPerPair ==
    \A i \in DOMAIN pending_orders :
        pending_orders[i].status = "pendiente" =>
            Cardinality(PendingFor(pending_orders, pending_orders[i].equipment_id,
                                   pending_orders[i].component_name)) = 1

\* C2: a check repeated with the same reference date on the state the first
\* one left returns the empty list and adds nothing, and every pair that is
\* due on an evaluated equipment has exactly one pending order.
C2_CheckIdempotent ==
    (ret.op = "check_due_maintenance" /\ ret.repeat) =>
        /\ ret.val = <<>>
        /\ pending_orders = ret.before
        /\ \A e \in DOMAIN fleet : \A c \in DOMAIN fleet[e].components :
              (evaluable(fleet[e].status) /\ DueAtCheck(e, c)) =>
                  Cardinality(PendingFor(pending_orders, e, c)) = 1

\* C2 witness: the repeated check ran while a due pair had its pending order
C2_Witness ==
    /\ ret.op = "check_due_maintenance" /\ ret.repeat
    /\ \E e \in DOMAIN fleet : \E c \in DOMAIN fleet[e].components :
          /\ evaluable(fleet[e].status) /\ DueAtCheck(e, c)
          /\ PendingFor(pending_orders, e, c) # {}

\* C3: the list a check returns is exactly what the call appended to the
\* collection: the collection afterwards is the one at entry followed by the
\* returned list, and no returned order was there before.
C3_ReturnsExactlyCreated ==
    ret.op = "check_due_maintenance" =>
        /\ pending_orders = ret.before \o ret.val
        /\ \A k \in DOMAIN ret.val : \A i \in DOMAIN ret.before :
              ret.val[k].id # ret.before[i].id

\* C3 witness: a check that found a pending backlog and created an order
C3_Witness ==
    /\ ret.op = "check_due_maintenance"
    /\ \E i \in DOMAIN ret.before : ret.before[i].status = "pendiente"
    /\ ret.val # <<>>

\* C4: a check creates no order for an equipment that is in maintenance or
\* has a request pending; every order it returns is for an equipment in an
\* operational-equivalent status.
C4_SkipsUnavailableEquipment ==
    ret.op = "check_due_maintenance" =>
        \A k \in DOMAIN ret.val :
            /\ fleet[ret.val[k].equipment_id].status
                  \notin {"en mantenimiento", "en solicitud"}
            /\ fleet[ret.val[k].equipment_id].status
                  \in {"operativo", "disponible", "en servicio"}

\* C4 witness: a check created orders while an equipment in maintenance had
\* a due component, which got no order
C4_Witness ==
    /\ ret.op = "check_due_maintenance"
    /\ ret.val # <<>>
    /\ \E e \in DOMAIN fleet : \E c \in DOMAIN fleet[e].components :
          /\ fleet[e].status = "en mantenimiento"
          /\ DueAtCheck(e, c)
          /\ \A i \in DOMAIN pending_orders :
                ~(pending_orders[i].equipment_id = e
                  /\ pending_orders[i].component_name = c)

\* C8: after complete_order has completed an order, the component's record
\* holds the equipment's readings of that moment: last_service_hours is the
\* current horometro, last_service_km the current odometro, and the service
\* date is the day of completion.
C8_RebaselinesToCurrentReadings ==
    (ret.op = "complete_order" /\ ret.found /\ ret.raised = "") =>
        LET equipment == fleet[Completed.equipment_id]
            record == equipment.components[Completed.component_name]
        IN  /\ record.last_service_hours = equipment.horometro
            /\ record.last_service_km = equipment.odometro
            /\ record.last_service_date = DateOf(Completed.completed_at)

\* C8 witness: the horometro advanced between the order's creation and its
\* completion, and the record holds the later reading
C8_Witness ==
    /\ ret.op = "complete_order" /\ ret.found /\ ret.raised = ""
    /\ hor_at_creation[ret.order_id] < fleet[Completed.equipment_id].horometro
    /\ fleet[Completed.equipment_id].components[Completed.component_name]
          .last_service_hours = fleet[Completed.equipment_id].horometro

\* C9: complete_order with an id that matches no order tells the caller so:
\* what it returns or raises differs from a successful completion, which
\* returns None and raises nothing.
C9_UnknownIdReported ==
    (ret.op = "complete_order" /\ ~ret.found) =>
        (ret.val # None \/ ret.raised # "")

\* C10: an order's status only moves forward.  In every step, an order that
\* is completed stays completed, and an order that is pending afterwards was
\* pending before.
C10_StatusOnlyForward ==
    [][\A i \in DOMAIN pending_orders : \A j \in DOMAIN pending_orders' :
          pending_orders'[j].id = pending_orders[i].id =>
              /\ pending_orders[i].status = "completada"
                    => pending_orders'[j].status = "completada"
              /\ pending_orders'[j].status = "pendiente"
                    => pending_orders[i].status = "pendiente"]_vars

\* C10 witness: complete_order ran on an order that was already completed and
\* left it completed
C10_Witness ==
    /\ ret.op = "complete_order" /\ ret.found
    /\ ret.status_before = "completada"
    /\ Completed.status = "completada"

\* C23: completing a work order through the scheduler puts the equipment
\* back to operational: after complete_order has completed an order for
\* equipment E, E's status is 'operativo'.
C23_CompletionFlipsStatus ==
    (ret.op = "complete_order" /\ ret.found /\ ret.raised = "") =>
        fleet[Completed.equipment_id].status = "operativo"

\* C28: detection is complete.  Right after check_due_maintenance(d), every
\* pair of an equipment in an evaluable status whose record is due at (d,
\* horometro, odometro) has a pending order, and every order the call
\* created is pending, has due_date d and carries the reason is_due gives.
C28_DetectionComplete ==
    ret.op = "check_due_maintenance" =>
        /\ \A e \in DOMAIN fleet : \A c \in DOMAIN fleet[e].components :
              (evaluable(fleet[e].status) /\ DueAtCheck(e, c)) =>
                  PendingFor(pending_orders, e, c) # {}
        /\ \A k \in DOMAIN ret.val :
              LET o == ret.val[k]
                  eq == fleet[o.equipment_id]
              IN  /\ o.status = "pendiente"
                  /\ o.due_date = ret.date
                  /\ o.reason = is_due(eq.components[o.component_name],
                                       ret.date, eq.horometro, eq.odometro)[2]
                  /\ \E i \in DOMAIN pending_orders : pending_orders[i] = o

\* C28 witness: the check found a component past its days interval on two
\* equipment and created an order for each
C28_Witness ==
    /\ ret.op = "check_due_maintenance"
    /\ Len(ret.val) = 2
    /\ ret.val[1].equipment_id # ret.val[2].equipment_id
    /\ ret.val[1].reason[1] = "Dias alcanzados"
    /\ ret.val[2].reason[1] = "Dias alcanzados"
    /\ ret.before = <<>>

\* C29: complete_order with an id that matches no order is a silent no-op:
\* the step that makes the call returns None, raises nothing, and leaves the
\* orders, the fleet (records, counters, statuses) and the inventory as they
\* were.
C29_UnmatchedIdNoOp ==
    [][(ret'.op = "complete_order" /\ ~ret'.found) =>
          /\ ret'.val = None
          /\ ret'.raised = ""
          /\ UNCHANGED <<fleet, pending_orders, inventory>>]_vars

\* C29 witness: the call was made with an unmatched id while an order was
\* pending on an equipment whose readings had advanced since its last service
C29_Witness ==
    /\ ret.op = "complete_order" /\ ~ret.found
    /\ \E i \in DOMAIN pending_orders :
          /\ pending_orders[i].status = "pendiente"
          /\ fleet[pending_orders[i].equipment_id].horometro > 0

\* C31: an order closed through manage_orders or mechanic_orders is
\* chronologically consistent: once its status is completed and its start
\* time is recorded, its completed_at is not earlier than its start_time.
C31_ClosedOrdersChronological ==
    \A i \in DOMAIN pending_orders :
       (pending_orders[i].status = "completada"
        /\ pending_orders[i].start_time # None)
          => pending_orders[i].completed_at >= pending_orders[i].start_time

\* C33: completion takes effect once.  A complete_order call with the id of
\* an order that is already completed changes nothing: the order keeps its
\* completed_at, and the component's record keeps the last_service_date,
\* last_service_hours and last_service_km of the first completion, whatever
\* the equipment's counters have become since.
C33_CompletionOnce ==
    [][(ret'.op = "complete_order" /\ ret'.found
        /\ ret'.status_before = "completada") =>
          UNCHANGED <<fleet, pending_orders>>]_vars

\* C35: the frame of complete_order.  A call on an existing order changes
\* only that order's status and completed_at and the service data of the one
\* ComponentRecord named by the order's equipment and component: every other
\* order, every other record, the intervals of that record, the horometro,
\* odometro and status of every equipment and the inventory are unchanged.
C35_CompleteOrderFrame ==
    [][(ret'.op = "complete_order" /\ ret'.found) =>
          LET i == FindOrder(pending_orders, ret'.order_id)
              o == pending_orders[i]
          IN  /\ DOMAIN pending_orders' = DOMAIN pending_orders
              /\ \A j \in DOMAIN pending_orders :
                    j # i => pending_orders'[j] = pending_orders[j]
              /\ pending_orders'[i] =
                    [o EXCEPT !.status = pending_orders'[i].status,
                              !.completed_at = pending_orders'[i].completed_at]
              /\ DOMAIN fleet' = DOMAIN fleet
              /\ \A e \in DOMAIN fleet :
                    /\ fleet'[e].horometro = fleet[e].horometro
                    /\ fleet'[e].odometro = fleet[e].odometro
                    /\ fleet'[e].status = fleet[e].status
                    /\ DOMAIN fleet'[e].components = DOMAIN fleet[e].components
                    /\ \A c \in DOMAIN fleet[e].components :
                          LET old == fleet[e].components[c]
                              new == fleet'[e].components[c]
                          IN  IF e = o.equipment_id /\ c = o.component_name
                              THEN new = [old EXCEPT
                                     !.last_service_date = new.last_service_date,
                                     !.last_service_hours = new.last_service_hours,
                                     !.last_service_km = new.last_service_km]
                              ELSE new = old
              /\ inventory' = inventory]_vars

\* C35 witness: an order was completed on an equipment that has run since
\* its components were serviced; its record holds the present horometro,
\* another record of the same equipment still holds the earlier one, and
\* another order is still pending
C35_Witness ==
    /\ ret.op = "complete_order" /\ ret.found /\ ret.raised = ""
    /\ LET equipment == fleet[Completed.equipment_id]
       IN  /\ equipment.components[Completed.component_name].last_service_hours
                 = equipment.horometro
           /\ \E c \in DOMAIN equipment.components :
                 equipment.components[c].last_service_hours < equipment.horometro
    /\ \E j \in DOMAIN pending_orders :
          /\ pending_orders[j].id # ret.order_id
          /\ pending_orders[j].status = "pendiente"

\* the scheduler completing orders that the app's form has appended to its
\* list: an order from manual_order_form names a registered component or a
\* free-text one, which has no ComponentRecord on the equipment
ManualNext ==
    /\ \/ next_day /\ UNCHANGED <<inventory, failure_log>>
       \/ \E d \in 1..MaxCounter :
             update_horometro(EqSeq[1], d) /\ UNCHANGED <<inventory, failure_log>>
       \/ \E e \in EqIds, c \in FormComps, cl \in FormClass, d \in DueDates :
             manual_order_form(e, c, cl, d)
       \/ \E id \in OrderIds : complete_order_call(id)
    /\ UNCHANGED threads

ManualSpec == AppInit /\ [][ManualNext]_vars

\* C32: complete_order is all-or-nothing.  A call that fails, because the
\* order's equipment is not in the registry or its component has no record
\* on that equipment, leaves the order's status and completed_at as they
\* were before the call.
C32_CompleteAllOrNothing ==
    [][(ret'.op = "complete_order" /\ ret'.raised # "") =>
          LET i == FindOrder(pending_orders, ret'.order_id)
          IN  /\ pending_orders'[i].status = pending_orders[i].status
              /\ pending_orders'[i].completed_at = pending_orders[i].completed_at]_vars

\* C38: an equipment is shown as operational only when no work is open on
\* it.  In every state of the app, an equipment whose status is 'operativo'
\* has no pending order that was created manually or from a request.
C38_OperativoMeansNoOpenWork ==
    \A i \in DOMAIN pending_orders :
       LET o == pending_orders[i]
       IN  (/\ o.status = "pendiente"
            /\ o.reason \in {<<"OT programada manualmente">>,
                             <<"Solicitud de operaciones">>}
            /\ o.equipment_id \in DOMAIN fleet)
              => fleet[o.equipment_id].status # "operativo"

\* operations and maintenance working on requests only: requests are
\* submitted and converted, the script reruns, days pass
ReqNext ==
    /\ \/ next_day /\ UNCHANGED <<inventory, failure_log>>
       \/ rerun
       \/ \E e \in EqIds, c \in FormComps, cl \in FormClass :
             submit_request(e, c, cl)
       \/ \E i \in 1..MaxIds, cl \in Reclass, d \in DueDates :
             process_work_requests(i, cl, d)
    /\ UNCHANGED threads

ReqSpec == AppInit /\ [][ReqNext]_vars

\* the ids of the orders among orders that came from a request
FromRequests(orders) ==
    {orders[k].id : k \in {j \in DOMAIN orders :
                             orders[j].reason = <<"Solicitud de operaciones">>}}

----------------------------------------------------------------------------
(* Persistence failing.  The session updates readings, logs failures and    *)
(* adds parts, each handler ending with save_data, and at some point the    *)
(* data file stops being writable (its permissions change, the volume is    *)
(* remounted read-only): open(DATA_FILE, "w") raises from then on, and the  *)
(* file keeps the last document written.  Orders and requests are left out: *)
(* with either in the session the file never loads back whole.              *)

\* the data file can be read and no longer written
file_made_readonly ==
    /\ file.kind = "doc"
    /\ file' = ReadOnly(file)
    /\ ret' = NoRet
    /\ UNCHANGED <<fleet, pending_orders, work_requests, clock, uuid_counter,
                   hor_at_creation, inventory, failure_log>>

FailureHours == {0, 7}
NewStocks == {1}

PersistNext ==
    /\ \/ next_day /\ UNCHANGED <<inventory, failure_log>>
       \/ rerun
       \/ \E h \in 1..MaxCounter : update_readings_form(EqSeq[1], h, 0)
       \/ \E r \in FailureHours : log_failure_form(EqSeq[1], CompSeq[1], r)
       \/ \E s \in NewStocks : add_part_form(UnknownPart, s, 0)
       \/ file_made_readonly
    /\ UNCHANGED threads

PersistSpec == AppInit /\ [][PersistNext]_vars

\* C21: the failure log is append-only.  In every step the entries that were
\* in the log are still there, unchanged and in their places, and at most
\* one entry is added, at the end: by logging, by a rerun of the script with
\* its load_data, by any other handler.
C21_FailureLogAppendOnly ==
    [][/\ Len(failure_log') >= Len(failure_log)
       /\ Len(failure_log') <= Len(failure_log) + 1
       /\ \A i \in DOMAIN failure_log : failure_log'[i] = failure_log[i]]_vars

\* C26: a failed save never rolls the session back.  While the file cannot
\* be written every save_data fails, and a rerun of the script, which
\* initialises the session again, leaves the fleet, the inventory, the
\* orders, the requests and the failure log as the handlers left them.
C26_FailedSaveNoRollback ==
    [][(file.kind \in {"locked", "readonly"} /\ rerun) =>
          UNCHANGED <<fleet, inventory, pending_orders, work_requests,
                      failure_log>>]_vars

\* the fields of an order that the file records and load_data hands back to
\* WorkOrder (lines 527-552 and 654-672)
SavedOrder(o) ==
    [id |-> o.id, equipment_id |-> o.equipment_id,
     component_name |-> o.component_name, due_date |-> o.due_date,
     status |-> o.status, completed_at |-> o.completed_at,
     start_time |-> o.start_time]

\* C24: persistence round trip.  Whenever a handler's save_data has written
\* the data file, a session that initialises afterwards (init_state, then
\* load_data of that file) holds the fleet, the inventory, the work orders
\* (id, equipment, component, due date, status, timestamps), the work
\* requests and the failure events of the session that saved.
C24_SaveLoadRoundTrip ==
    [][(file' # file) =>
          LET s == load_data(FreshSession(DateOf(clock')), file', clock')
          IN  /\ s.fleet = fleet'
              /\ s.inventory = inventory'
              /\ Len(s.pending_orders) = Len(pending_orders')
              /\ \A i \in DOMAIN pending_orders' :
                     i \in DOMAIN s.pending_orders
                     => SavedOrder(s.pending_orders[i]) = SavedOrder(pending_orders'[i])
              /\ s.work_requests = work_requests'
              /\ s.failure_log = failure_log']_vars

(* Loading a damaged file.  The session updates readings, logs failures and *)
(* adds parts, and the data file, edited by hand or cut short by a crash,   *)
(* comes to hold one malformed record: a component whose last_service_date  *)
(* is no date, a failure whose timestamp is no date, or a failure without   *)
(* its equipment_id.  Sessions rerun and new sessions open on that file.    *)

\* the records of the file that load_data can rebuild
WellFormedEquipment(eq_info) ==
    \A c \in DOMAIN eq_info.components :
       parses(eq_info.components[c].last_service_date)

WellFormedFailure(entry) ==
    "equipment_id" \in DOMAIN entry /\ parses(entry.timestamp)

WellFormed(f) ==
    /\ \A e \in DOMAIN f.fleet : WellFormedEquipment(f.fleet[e])
    /\ \A i \in DOMAIN f.failures : WellFormedFailure(f.failures[i])

\* one record of a well-formed document becomes malformed
file_damaged ==
    /\ file.kind = "doc"
    /\ WellFormed(file)
    /\ \/ \E e \in DOMAIN file.fleet :
             \E c \in DOMAIN file.fleet[e].components :
                file' = [file EXCEPT
                            !.fleet[e].components[c].last_service_date = NotADate]
       \/ \E i \in DOMAIN file.failures :
             file' = [file EXCEPT !.failures[i].timestamp = NotADate]
       \/ \E i \in DOMAIN file.failures :
             file' = [file EXCEPT !.failures[i] =
                         [k \in DOMAIN @ \ {"equipment_id"} |-> @[k]]]
    /\ ret' = NoRet
    /\ UNCHANGED <<fleet, pending_orders, work_requests, clock, uuid_counter,
                   hor_at_creation, inventory, failure_log>>

LoadNext ==
    /\ \/ next_day /\ UNCHANGED <<inventory, failure_log>>
       \/ rerun
       \/ new_session
       \/ \E h \in 1..MaxCounter : update_readings_form(EqSeq[1], h, 0)
       \/ \E e \in EqIds : log_failure_form(e, CompSeq[1], 0)
       \/ \E s \in NewStocks : add_part_form(UnknownPart, s, 0)
       \/ file_damaged
    /\ UNCHANGED threads

LoadSpec == AppInit /\ [][LoadNext]_vars

\* C25: a malformed record is skipped and nothing else.  In a session that
\* has just initialised from the data file, every equipment of the file
\* whose component dates all parse is in the fleet with its readings, status
\* and components, every part of the file is in the inventory with its stock
\* and minimum, and every failure of the file that has its fields and a
\* timestamp that parses is in the failure log.
C25_MalformedRecordSkipped ==
    (ret.op = "init_state" /\ file.kind \in {"doc", "readonly"}) =>
        /\ \A e \in DOMAIN file.fleet :
              WellFormedEquipment(file.fleet[e]) =>
                 /\ e \in DOMAIN fleet
                 /\ fleet[e] = load_fleet([x \in {e} |-> file.fleet[e]]).fleet[e]
        /\ \A part \in DOMAIN file.inventory :
              /\ part \in DOMAIN inventory.stock
              /\ inventory.stock[part] = <<file.inventory[part].stock,
                                           file.inventory[part].min_stock>>
        /\ \A i \in DOMAIN file.failures :
              WellFormedFailure(file.failures[i]) =>
                 \E j \in DOMAIN failure_log :
                    failure_log[j] = [file.failures[i] EXCEPT
                                         !.timestamp = fromisoformat(@)]

----------------------------------------------------------------------------
(* Registration: one equipment whose component is registered, and           *)
(* registered again, with service data given or left out, between counter   *)
(* updates, checks and completions.  The readings advance a step at a time; *)
(* service data given is not later than the current date and readings.      *)

RegInit ==
    /\ fleet = [e \in {EqSeq[1]} |-> Equipment]
    /\ pending_orders = <<>>
    /\ work_requests = <<>>
    /\ file = NoFile
    /\ clock = 0
    /\ uuid_counter = 0
    /\ ret = NoRet
    /\ hor_at_creation = <<>>
    /\ inventory = SeedInventory
    /\ failure_log = <<>>
    /\ threads = NoThreads

\* eq.register_component(comp, service_date, service_hours, service_km)
register_component_call(e, name, service_date, service_hours, service_km) ==
    /\ service_date <= Today
    /\ service_hours <= fleet[e].horometro
    /\ service_km <= fleet[e].odometro
    /\ fleet' = [fleet EXCEPT ![e] =
                    register_component(@, name, default_components(name),
                                       service_date, service_hours, service_km,
                                       Today)]
    /\ ret' = [op |-> "register_component"]
    /\ UNCHANGED <<pending_orders, work_requests, file, clock, uuid_counter,
                   hor_at_creation>>

ServiceDates == {None} \cup 0..MaxDay
ServiceReadings == {None, 0}

RegNext ==
    /\ \/ next_day
       \/ update_horometro(EqSeq[1], 1)
       \/ update_odometro(EqSeq[1], Res)
       \/ \E sd \in ServiceDates, sh \in ServiceReadings, sk \in {None} :
             register_component_call(EqSeq[1], CompSeq[1], sd, sh, sk)
       \/ check_due_maintenance_call(None)
       \/ \E id \in OrderIds : complete_order_call(id)
    /\ UNCHANGED others

RegSpec == RegInit /\ [][RegNext]_vars

\* in this step no record's last service date or readings move backward
RecordsNotBackward ==
    \A e \in DOMAIN fleet \cap DOMAIN fleet' :
        \A c \in DOMAIN fleet[e].components \cap DOMAIN fleet'[e].components :
            LET old == fleet[e].components[c]
                new == fleet'[e].components[c]
            IN  /\ new.last_service_date >= old.last_service_date
                /\ new.last_service_hours >= old.last_service_hours
                /\ new.last_service_km >= old.last_service_km

\* C12 as stated: across any sequence of counter updates, register_component,
\* check_due_maintenance and complete_order the last service date, hours and
\* km of an equipment's component never move backward.
C12_NeverBackward == [][RecordsNotBackward]_vars

\* C12 amended: the last service date, hours and km never move backward in
\* any step other than a registration.  Registering a name again replaces
\* its record with the service data given, which may be earlier.
C12_NeverBackwardButRegistration ==
    [][ret'.op # "register_component" => RecordsNotBackward]_vars

\* C12 witness: a completion moved a record registered with earlier service
\* data forward, to a later day and a higher reading
C12_Witness ==
    /\ ret.op = "complete_order" /\ ret.found /\ ret.raised = ""
    /\ fleet[Completed.equipment_id].components[Completed.component_name]
          .last_service_date > 0
    /\ fleet[Completed.equipment_id].components[Completed.component_name]
          .last_service_hours > 0

----------------------------------------------------------------------------
(* The inventory on its own: parts are added and reserved, one call at a    *)
(* time.                                                                    *)

InvInit ==
    /\ fleet = SeedFleet
    /\ pending_orders = <<>>
    /\ work_requests = <<>>
    /\ file = NoFile
    /\ clock = 0
    /\ uuid_counter = 0
    /\ ret = NoRet
    /\ hor_at_creation = <<>>
    /\ inventory = SeedInventory
    /\ failure_log = <<>>
    /\ threads = NoThreads

\* inventory.add_part(part_name, initial_stock, min_stock, fits_components)
add_part_call(part_name, initial_stock, min_stock, fits_components) ==
    /\ inventory' = add_part(inventory, part_name, initial_stock, min_stock,
                             fits_components)
    /\ ret' = NoRet
    /\ UNCHANGED <<fleet, pending_orders, work_requests, file, clock,
                   uuid_counter, hor_at_creation, failure_log, threads>>

\* inventory.reserve_part(part_name, quantity)
reserve_part_call(part_name, quantity) ==
    /\ LET r == reserve_part(inventory, part_name, quantity)
       IN  /\ inventory' = r.inv
           /\ ret' = [op |-> "reserve_part", part_name |-> part_name,
                      quantity |-> quantity, before |-> inventory,
                      val |-> r.val, raised |-> r.raised]
    /\ UNCHANGED <<fleet, pending_orders, work_requests, file, clock,
                   uuid_counter, hor_at_creation, failure_log, threads>>

\* inventory.low_stock_alerts()
low_stock_alerts_call ==
    /\ ret' = [op |-> "low_stock_alerts", val |-> low_stock_alerts(inventory)]
    /\ UNCHANGED <<fleet, pending_orders, work_requests, file, clock,
                   uuid_counter, hor_at_creation, inventory, failure_log,
                   threads>>

Stocks == 0..MaxStock
MinStocks == {0, 1}
Quantities == 1..(MaxStock + 2)

\* a new part fits nothing (the app's form) or one component
Fits == {<<>>, <<CompSeq[1]>>}

InvNext ==
    \/ \E p \in PartNames, s \in Stocks, m \in MinStocks, f \in Fits :
          add_part_call(p, s, m, f)
    \/ \E p \in PartNames, q \in Quantities : reserve_part_call(p, q)
    \/ low_stock_alerts_call

InvSpec == InvInit /\ [][InvNext]_vars

\* C14: a reservation of more than the part's stock, an unknown part
\* counting as stock 0, returns false, raises nothing and leaves the whole
\* ledger as it was.
C14_InsufficientStockRefused ==
    (ret.op = "reserve_part"
        /\ ret.quantity > get_stock(ret.before, ret.part_name)) =>
            /\ ret.val = FALSE
            /\ ret.raised = ""
            /\ inventory = ret.before

\* C14 witness: 5 asked of a part that has 3, refused, and the part still
\* has 3
C14_Witness ==
    /\ ret.op = "reserve_part"
    /\ ret.part_name \in DOMAIN ret.before.stock
    /\ get_stock(ret.before, ret.part_name) = MaxStock
    /\ ret.quantity = MaxStock + 2
    /\ ret.val = FALSE
    /\ get_stock(inventory, ret.part_name) = MaxStock

\* C22: low_stock_alerts returns exactly the parts whose stock is less than
\* or equal to their minimum, each once: a part at its minimum is listed,
\* a part one above its minimum is not.
C22_LowStockInclusive ==
    ret.op = "low_stock_alerts" =>
        /\ Range(ret.val) = {part \in DOMAIN inventory.stock :
                                inventory.stock[part][1]
                                   <= inventory.stock[part][2]}
        /\ Len(ret.val) = Cardinality(Range(ret.val))

\* C22 witness: one part is listed with its stock at a minimum of 1 while
\* another, one above its minimum, is not
C22_Witness ==
    /\ ret.op = "low_stock_alerts"
    /\ \E part \in Range(ret.val) :
          /\ inventory.stock[part][2] = 1
          /\ inventory.stock[part][1] = 1
    /\ \E part \in DOMAIN inventory.stock \ Range(ret.val) :
          inventory.stock[part][1] = inventory.stock[part][2] + 1

\* C30: reserve_part(name, q) returns true exactly when the part's stock is
\* at least q; then the part's stock is q less, and its minimum, the
\* component mapping and every other part are as they were.
C30_ReserveExactly ==
    ret.op = "reserve_part" =>
        LET b == ret.before
            name == ret.part_name
        IN  /\ ret.val = (get_stock(b, name) >= ret.quantity)
            /\ ret.val =>
                 /\ get_stock(inventory, name) = get_stock(b, name) - ret.quantity
                 /\ stock_get(inventory, name)[2] = stock_get(b, name)[2]
                 /\ inventory.part_mapping = b.part_mapping
                 /\ DOMAIN inventory.stock = DOMAIN b.stock
                 /\ \A other \in DOMAIN b.stock \ {name} :
                       inventory.stock[other] = b.stock[other]

\* C30 witness: all that was left of a part with minimum 1 is reserved,
\* with another part in the inventory
C30_Witness ==
    /\ ret.op = "reserve_part"
    /\ ret.val = TRUE
    /\ ret.quantity = get_stock(ret.before, ret.part_name)
    /\ ret.quantity > 1
    /\ stock_get(ret.before, ret.part_name)[2] = 1
    /\ get_stock(inventory, ret.part_name) = 0
    /\ DOMAIN ret.before.stock \ {ret.part_name} # {}

\* C37: stock is never negative.  With every add_part given a non-negative
\* initial stock and every reserve_part a positive quantity, get_stock is
\* at least 0 for every part name, known or not, after any sequence of the
\* two calls.
C37_StockNeverNegative ==
    \A p \in PartNames : get_stock(inventory, p) >= 0

\* C37 witness: a reservation of a positive quantity took the last units of
\* a part, and the stock stands at 0
C37_Witness ==
    /\ ret.op = "reserve_part" /\ ret.val
    /\ ret.quantity > 1
    /\ get_stock(ret.before, ret.part_name) = ret.quantity
    /\ get_stock(inventory, ret.part_name) = 0

\* reserve_part with any integer quantity: zero and negative ones as well.
\* The stock is kept within the range of the model.
AnyQuantities == -1..2

AnyQtyNext ==
    \/ \E p \in PartNames, s \in {0, 1}, m \in MinStocks :
          add_part_call(p, s, m, <<>>)
    \/ \E p \in PartNames, q \in AnyQuantities :
          /\ get_stock(inventory, p) - q <= MaxStock
          /\ reserve_part_call(p, q)
    \/ low_stock_alerts_call

AnyQtySpec == InvInit /\ [][AnyQtyNext]_vars

\* C36: reserve_part never adds a part name to the stock ledger and never
\* increases the stock of any part, whatever the part name, known or not,
\* and whatever the integer quantity, zero and negative ones included.
C36_ReserveNeverAdds ==
    ret.op = "reserve_part" =>
        /\ DOMAIN inventory.stock \subseteq DOMAIN ret.before.stock
        /\ \A p \in DOMAIN ret.before.stock :
              get_stock(inventory, p) <= get_stock(ret.before, p)

----------------------------------------------------------------------------
(* Concurrent callers.  The library takes no lock, and the interpreter may  *)
(* switch threads between any two bytecodes: a call is a sequence of steps, *)
(* one per read or write of the shared collections, and the steps of two    *)
(* calls interleave in any order.  Each thread makes one call.              *)

Threads == {1, 2}
Idle == [pc |-> "idle"]

ConcInit ==
    /\ \E h \in Deltas :
          fleet = [SeedFleet EXCEPT ![EqSeq[1]].horometro = h]
    /\ pending_orders = <<>>
    /\ work_requests = <<>>
    /\ file = NoFile
    /\ clock \in {0, TicksPerDay}
    /\ uuid_counter = 0
    /\ ret = NoRet
    /\ hor_at_creation = <<>>
    /\ inventory = SeedInventory
    /\ failure_log = <<>>
    /\ threads = [t \in Threads |-> Idle]

\* reserve_part, line 220: the stock and the minimum are read
reserve_part_read(t, part_name, quantity) ==
    /\ threads[t].pc = "idle"
    /\ threads' = [threads EXCEPT ![t] =
          [pc |-> "reserve_221", op |-> "reserve_part",
           part_name |-> part_name, quantity |-> quantity,
           current |-> stock_get(inventory, part_name)[1],
           min_stock |-> stock_get(inventory, part_name)[2]]]
    /\ UNCHANGED <<fleet, pending_orders, work_requests, file, clock,
                   uuid_counter, ret, hor_at_creation, inventory, failure_log>>

\* reserve_part, lines 221-224: the value read is compared, and what is
\* left of it is written back
reserve_part_write(t) ==
    /\ threads[t].pc = "reserve_221"
    /\ LET th == threads[t]
           ok == th.current >= th.quantity
       IN  /\ inventory' =
                 IF ok THEN [inventory EXCEPT !.stock =
                                dict_set(@, th.part_name,
                                    <<th.current - th.quantity, th.min_stock>>)]
                 ELSE inventory
           /\ threads' = [threads EXCEPT ![t] =
                 [pc |-> "done", op |-> "reserve_part",
                  part_name |-> th.part_name, quantity |-> th.quantity,
                  val |-> ok]]
    /\ UNCHANGED <<fleet, pending_orders, work_requests, file, clock,
                   uuid_counter, ret, hor_at_creation, failure_log>>

\* check_due_maintenance, lines 271-273: the call starts its loops
check_due_maintenance_enter(t) ==
    /\ threads[t].pc = "idle"
    /\ threads' = [threads EXCEPT ![t] =
          [pc |-> "check_277", op |-> "check_due_maintenance",
           reference_date |-> Today, pairs |-> VisitOrder(fleet),
           due_orders |-> <<>>]]
    /\ UNCHANGED <<fleet, pending_orders, work_requests, file, clock,
                   uuid_counter, ret, hor_at_creation, inventory, failure_log>>

\* lines 277-282 for the next record: is_due, then the search of the
\* pending orders
check_due_maintenance_test(t) ==
    /\ threads[t].pc = "check_277"
    /\ threads[t].pairs # <<>>
    /\ LET th == threads[t]
           eq == fleet[Head(th.pairs)[1]]
           res == is_due(eq.components[Head(th.pairs)[2]], th.reference_date,
                         eq.horometro, eq.odometro)
       IN  threads' = [threads EXCEPT ![t] =
              IF res[1] /\ ~already_pending(pending_orders, Head(th.pairs)[1],
                                            Head(th.pairs)[2])
              THEN [pc |-> "check_283", op |-> th.op,
                    reference_date |-> th.reference_date, pairs |-> th.pairs,
                    due_orders |-> th.due_orders, reason |-> res[2]]
              ELSE [th EXCEPT !.pairs = Tail(th.pairs)]]
    /\ UNCHANGED <<fleet, pending_orders, work_requests, file, clock,
                   uuid_counter, ret, hor_at_creation, inventory, failure_log>>

\* lines 283-285: the order is built and appended to both lists
check_due_maintenance_append(t) ==
    /\ threads[t].pc = "check_283"
    /\ LET th == threads[t]
           order == WorkOrder(uuid_counter + 1, Head(th.pairs)[1],
                              Head(th.pairs)[2], th.reference_date, th.reason,
                              clock)
       IN  /\ pending_orders' = Append(pending_orders, order)
           /\ hor_at_creation' = Created(<<order>>, fleet)
           /\ threads' = [threads EXCEPT ![t] =
                 [pc |-> "check_277", op |-> th.op,
                  reference_date |-> th.reference_date,
                  pairs |-> Tail(th.pairs),
                  due_orders |-> Append(th.due_orders, order)]]
    /\ uuid_counter' = uuid_counter + 1
    /\ UNCHANGED <<fleet, work_requests, file, clock, ret, inventory,
                   failure_log>>

\* line 286: the loops are over, the list is returned
check_due_maintenance_return(t) ==
    /\ threads[t].pc = "check_277"
    /\ threads[t].pairs = <<>>
    /\ threads' = [threads EXCEPT ![t] =
          [pc |-> "done", op |-> "check_due_maintenance",
           val |-> threads[t].due_orders]]
    /\ UNCHANGED <<fleet, pending_orders, work_requests, file, clock,
                   uuid_counter, ret, hor_at_creation, inventory, failure_log>>

ConcNext ==
    \E t \in Threads :
        \/ \E q \in 1..2 : reserve_part_read(t, PartSeq[1], q)
        \/ reserve_part_write(t)
        \/ check_due_maintenance_enter(t)
        \/ check_due_maintenance_test(t)
        \/ check_due_maintenance_append(t)
        \/ check_due_maintenance_return(t)

ConcSpec == ConcInit /\ [][ConcNext]_vars

\* the quantities that the finished reserve_part calls on p reported reserved
RECURSIVE ReservedBy(_, _)
ReservedBy(ts, p) ==
    IF ts = {} THEN 0
    ELSE LET t == CHOOSE x \in ts : TRUE
             th == threads[t]
         IN  (IF th.pc = "done" /\ th.op = "reserve_part" /\ th.part_name = p
                 /\ th.val
              THEN th.quantity ELSE 0) + ReservedBy(ts \ {t}, p)

\* C15: concurrent reserve_part calls behave as if each ran alone.  Once no
\* call is in progress, the stock of every part has gone down by exactly the
\* sum of the quantities of the calls that returned true, so what was
\* reserved never exceeds what was there.
C15_ReservationsAtomic ==
    (\A t \in DOMAIN threads : threads[t].pc \in {"idle", "done"}) =>
        \A p \in DOMAIN inventory.stock :
            /\ get_stock(SeedInventory, p) - get_stock(inventory, p)
                  = ReservedBy(DOMAIN threads, p)
            /\ ReservedBy(DOMAIN threads, p) <= get_stock(SeedInventory, p)

\* C16: concurrent check_due_maintenance calls never leave two pending
\* orders for one (equipment, component) pair.
C16_DedupAtomic ==
    \A e \in DOMAIN fleet : \A c \in DOMAIN fleet[e].components :
        Cardinality(PendingFor(pending_orders, e, c)) <= 1

----------------------------------------------------------------------------
(* Two browser sessions on one data file.  Streamlit runs each session's    *)
(* script in a thread of its own with a session_state of its own; the       *)
(* sessions share DATA_FILE and nothing else.  A script run is init_state   *)
(* with its load_data, then the handler of the pressed button, then         *)
(* save_data; the runs of two sessions interleave between these steps.      *)
(* threads[t] holds session t's position and its session_state; the first   *)
(* five variables are the state of the session that opens last.             *)

Sessions == {1, 2}

\* what the pressed button does: "Actualizar lecturas" adding an hour,
\* "Anadir repuesto", "Registrar falla"
Mutations == {"hours", "part", "failure"}

\* the handler of session t on its session_state s (lines 366-370, 1541-1546
\* and 1580-1583); the stock of the part and the repair time tell the
\* sessions apart
handler(s, m, t, now) ==
    CASE m = "hours" -> [s EXCEPT !.fleet[EqSeq[1]].horometro = @ + 1]
      [] m = "part" -> [s EXCEPT !.inventory =
                           add_part(@, UnknownPart, t, 0, <<>>)]
      [] m = "failure" -> [s EXCEPT !.failure_log =
                              log_failure(@, EqSeq[1], CompSeq[1], t, now)]

SessInit ==
    /\ fleet = SeedFleet
    /\ pending_orders = <<>>
    /\ work_requests = <<>>
    /\ file = NoFile
    /\ clock = 0
    /\ uuid_counter = 0
    /\ ret = NoRet
    /\ hor_at_creation = <<>>
    /\ inventory = SeedInventory
    /\ failure_log = <<>>
    /\ threads = [t \in Sessions |-> Idle]

\* session t's script run starts: init_state seeds what the session lacks
\* and load_data replaces it with what the file holds
session_init_state(t) ==
    /\ threads[t].pc = "idle"
    /\ threads' = [threads EXCEPT ![t] =
          [pc |-> "loaded",
           s |-> load_data(FreshSession(Today), file, clock)]]
    /\ UNCHANGED <<fleet, pending_orders, work_requests, file, clock,
                   uuid_counter, ret, hor_at_creation, inventory, failure_log>>

\* the handler of the button changes the session_state
session_handler(t, m) ==
    /\ threads[t].pc = "loaded"
    /\ threads' = [threads EXCEPT ![t] =
          [pc |-> "changed", m |-> m,
           s |-> handler(threads[t].s, m, t, clock)]]
    /\ UNCHANGED <<fleet, pending_orders, work_requests, file, clock,
                   uuid_counter, ret, hor_at_creation, inventory, failure_log>>

\* the handler ends with save_data: the file is rewritten from the
\* session_state of this session
session_save_data(t) ==
    /\ threads[t].pc = "changed"
    /\ file' = save_data(threads[t].s, file)
    /\ threads' = [threads EXCEPT ![t].pc = "done"]
    /\ UNCHANGED <<fleet, pending_orders, work_requests, clock, uuid_counter,
                   ret, hor_at_creation, inventory, failure_log>>

\* both runs are over, and a session opens
session_opens_afterwards ==
    /\ \A t \in Sessions : threads[t].pc = "done"
    /\ new_session
    /\ UNCHANGED threads

SessNext ==
    \/ \E t \in Sessions : session_init_state(t)
    \/ \E t \in Sessions, m \in Mutations : session_handler(t, m)
    \/ \E t \in Sessions : session_save_data(t)
    \/ session_opens_afterwards

SessSpec == SessInit /\ [][SessNext]_vars

\* the session_state s holds the change that session t made
Holds(s, t) ==
    LET m == threads[t].m
    IN  CASE m = "hours" ->
               s.fleet[EqSeq[1]].horometro
                  = Cardinality({u \in Sessions : threads[u].m = "hours"})
          [] m = "part" ->
               /\ UnknownPart \in DOMAIN s.inventory.stock
               /\ (\A u \in Sessions \ {t} : threads[u].m # "part")
                     => s.inventory.stock[UnknownPart] = <<t, 0>>
          [] m = "failure" ->
               \E i \in DOMAIN s.failure_log :
                  s.failure_log[i].repair_time_hours = t

\* C39: no update is lost between sessions sharing the data file.  When two
\* sessions have each run load_data, made one change and run save_data, in
\* whatever interleaving, the file holds both changes (a load of it gives
\* them back), and so does the session that opens afterwards.
C39_NoLostUpdate ==
    (\A t \in Sessions : threads[t].pc = "done") =>
        \A t \in Sessions :
           /\ Holds(load_data(FreshSession(Today), file, clock), t)
           /\ ret.op = "init_state" => Holds(St, t)

----------------------------------------------------------------------------
(* The service cycle of one component: equipment E1 starts at horometro 0   *)
(* with one component that has an hours interval only; hours are added, the *)
(* scheduler checks, the order is completed, the scheduler checks again.    *)

E1 == EqSeq[1]
C == CompSeq[1]

CycleInit ==
    /\ \E hi \in 1..MaxInterval :
          fleet = [e \in {E1} |->
                      register_component(Equipment, C,
                          [hours_interval |-> hi, km_interval |-> None,
                           days_interval |-> None], None, None, None, 0)]
    /\ pending_orders = <<>>
    /\ work_requests = <<>>
    /\ file = NoFile
    /\ clock = 0
    /\ uuid_counter = 0
    /\ ret = NoRet
    /\ hor_at_creation = <<>>
    /\ inventory = SeedInventory
    /\ failure_log = <<>>
    /\ threads = NoThreads

CycleNext ==
    /\ \/ next_day
       \/ \E d \in Deltas : update_horometro(E1, d)
       \/ \E d \in {None, Today} : check_due_maintenance_call(d)
       \/ \E id \in OrderIds : complete_order_call(id)
    /\ UNCHANGED others

CycleSpec == CycleInit /\ [][CycleNext]_vars

\* the orders of a list that are for (E1, C)
OrdersForC(orders) ==
    {k \in DOMAIN orders : /\ orders[k].equipment_id = E1
                           /\ orders[k].component_name = C}

----------------------------------------------------------------------------
(* Planning ahead: equipment E1 with one component that has any combination *)
(* of hours, km and days intervals; the scheduler is asked what is due on   *)
(* today's date or on a date to come, orders are completed, and it is asked *)
(* again.                                                                   *)

PlanInit ==
    /\ \E hi \in Intervals, ki \in Intervals, di \in Intervals :
          fleet = [e \in {E1} |->
                      register_component(Equipment, C,
                          [hours_interval |-> hi, km_interval |-> ki,
                           days_interval |-> di], None, None, None, 0)]
    /\ pending_orders = <<>>
    /\ work_requests = <<>>
    /\ file = NoFile
    /\ clock = 0
    /\ uuid_counter = 0
    /\ ret = NoRet
    /\ hor_at_creation = <<>>
    /\ inventory = SeedInventory
    /\ failure_log = <<>>
    /\ threads = NoThreads

\* the reference dates asked about: None for today, or a day to come
ReferenceDates == {None, MaxDay + 1}

PlanNext ==
    /\ \/ next_day
       \/ \E d \in Deltas : update_horometro(E1, d)
       \/ update_odometro(E1, Res)
       \/ \E d \in ReferenceDates : check_due_maintenance_call(d)
       \/ \E id \in OrderIds : complete_order_call(id)
    /\ UNCHANGED others

PlanSpec == PlanInit /\ [][PlanNext]_vars

\* the order was completed and the counters have not changed since: the
\* record of its component holds the day of its completion and the
\* equipment's present readings
CompletedAtPresentReadings(o) ==
    LET equipment == fleet[o.equipment_id]
        record == equipment.components[o.component_name]
    IN  /\ o.status = "completada"
        /\ record.last_service_date = DateOf(o.completed_at)
        /\ record.last_service_hours = equipment.horometro
        /\ record.last_service_km = equipment.odometro

\* the orders of a list that are for the pair of o
OrdersLike(orders, o) ==
    {k \in DOMAIN orders : /\ orders[k].equipment_id = o.equipment_id
                           /\ orders[k].component_name = o.component_name}

\* C34, as stated: after complete_order has succeeded on the order for
\* (E, C), a check_due_maintenance with the reference date that produced the
\* order, made with no counter change, creates no new order for (E, C),
\* whatever combination of hours, km and days intervals the component has.
C34_NoOrderAfterCompletion ==
    [][(/\ ret.op = "complete_order" /\ ret.found /\ ret.raised = ""
        /\ ret'.op = "check_due_maintenance"
        /\ ret'.date = Completed.due_date)
          => OrdersLike(ret'.val, Completed) = {}]_vars

\* C34, amended: the same, when the reference date is fewer than
\* days_interval days after the day of completion (always so for a
\* component without a days interval, and for a reference date that is the
\* day of completion or earlier).
C34_NoOrderAfterCompletionUnlessDaysAhead ==
    [][(/\ ret.op = "complete_order" /\ ret.found /\ ret.raised = ""
        /\ ret'.op = "check_due_maintenance"
        /\ ret'.date = Completed.due_date
        /\ LET record == fleet[Completed.equipment_id]
                            .components[Completed.component_name]
           IN  \/ record.days_interval = None
               \/ ret'.date - DateOf(Completed.completed_at)
                     < record.days_interval)
          => OrdersLike(ret'.val, Completed) = {}]_vars

\* C34 witness: an order created when the km interval was reached, on an
\* equipment whose component also has an hours and a days interval, was
\* completed, and the check made again with its reference date and the
\* readings unchanged created nothing
C34_Witness ==
    /\ ret.op = "check_due_maintenance"
    /\ ret.val = <<>>
    /\ \E i \in DOMAIN ret.before :
          LET o == ret.before[i]
              record == fleet[o.equipment_id].components[o.component_name]
          IN  /\ CompletedAtPresentReadings(o)
              /\ o.due_date = ret.date
              /\ o.reason[1] = "Kilometros alcanzados"
              /\ record.hours_interval # None
              /\ record.days_interval # None
              /\ fleet[o.equipment_id].odometro > 0

----------------------------------------------------------------------------
(* The failure metrics, on a log of their own.  Here the timestamps are in *)
(* seconds and the repair times in units of 1/Res hour.  An Optional[float] *)
(* is a fraction in lowest terms, or NoValue for Python's None.             *)

RECURSIVE gcd(_, _)
gcd(a, b) == IF b = 0 THEN a ELSE gcd(b, a % b)

NoValue == [num |-> 0, den |-> 0]
Frac(n, d) == LET g == gcd(n, d) IN [num |-> n \div g, den |-> d \div g]

\* None passed where a component name is expected: equal to no name
NoName == "None"

\* the filter of both metrics: entry[1] == equipment_id and
\* entry[2] == component_name
matches(entry, equipment_id, component_name) ==
    /\ entry.equipment_id = equipment_id
    /\ entry.component_name = component_name

\* [entry[0] for entry in self.entries if ...]
times_of(entries, equipment_id, component_name) ==
    LET m == SelectSeq(entries,
                 LAMBDA entry : matches(entry, equipment_id, component_name))
    IN  [i \in DOMAIN m |-> m[i].timestamp]

\* times.sort()
sort(times) == SortSeq(times, LAMBDA a, b : a < b)

\* sum((times[i] - times[i-1]).total_seconds() ... for i in range(1, len))
RECURSIVE total_interval(_, _)
total_interval(times, i) ==
    IF i > Len(times) THEN 0
    ELSE (times[i] - times[i - 1]) + total_interval(times, i + 1)

\* the deltas are taken in the order the entries were inserted
mtbf_of_unsorted(times) ==
    IF Len(times) < 2 THEN NoValue
    ELSE LET total == total_interval(times, 2)
         IN  IF total < 0
             THEN [num |-> 0 - Frac(0 - total, Hour * (Len(times) - 1)).num,
                   den |-> Frac(0 - total, Hour * (Len(times) - 1)).den]
             ELSE Frac(total, Hour * (Len(times) - 1))

\* a value needs three matching failures
mtbf_of_three(times) ==
    IF Len(times) < 3 THEN NoValue
    ELSE Frac(total_interval(sort(times), 2), Hour * (Len(times) - 1))

\* the rest of calculate_mtbf, for a list of timestamps: seconds become hours
\* by / 3600
mtbf_of(times) ==
    IF Len(times) < 2 THEN NoValue
    ELSE Frac(total_interval(sort(times), 2), Hour * (Len(times) - 1))

\* FailureLog.calculate_mtbf
calculate_mtbf(entries, equipment_id, component_name) ==
    mtbf_of(times_of(entries, equipment_id, component_name))

RECURSIVE sum(_)
sum(xs) == IF xs = <<>> THEN 0 ELSE Head(xs) + sum(Tail(xs))

\* FailureLog.calculate_mttr
calculate_mttr(entries, equipment_id, component_name) ==
    LET m == SelectSeq(entries,
                 LAMBDA entry : matches(entry, equipment_id, component_name))
        repair_times == [i \in DOMAIN m |-> m[i].repair_time_hours]
    IN  IF repair_times = <<>> THEN NoValue
        ELSE Frac(sum(repair_times), Res * Len(repair_times))

FailInit ==
    /\ fleet = SeedFleet
    /\ pending_orders = <<>>
    /\ work_requests = <<>>
    /\ file = NoFile
    /\ clock = 0
    /\ uuid_counter = 0
    /\ ret = NoRet
    /\ hor_at_creation = <<>>
    /\ inventory = SeedInventory
    /\ failure_log = <<>>
    /\ threads = NoThreads

\* failure_log.log_failure(equipment_id, component_name, description, hours)
log_failure_call(equipment_id, component_name, repair_time_hours, now) ==
    /\ Len(failure_log) < MaxEntries
    /\ failure_log' = log_failure(failure_log, equipment_id, component_name,
                                  repair_time_hours, now)
    /\ ret' = [op |-> "log_failure"]
    /\ UNCHANGED <<fleet, pending_orders, work_requests, file, clock,
                   uuid_counter, hor_at_creation, inventory, threads>>

\* failure_log.calculate_mtbf(equipment_id, component_name)
calculate_mtbf_call(equipment_id, component_name) ==
    /\ ret' = [op |-> "calculate_mtbf", equipment_id |-> equipment_id,
               component_name |-> component_name,
               val |-> calculate_mtbf(failure_log, equipment_id, component_name)]
    /\ UNCHANGED <<fleet, pending_orders, work_requests, file, clock,
                   uuid_counter, hor_at_creation, inventory, failure_log,
                   threads>>

\* failure_log.calculate_mttr(equipment_id, component_name)
calculate_mttr_call(equipment_id, component_name) ==
    /\ ret' = [op |-> "calculate_mttr", equipment_id |-> equipment_id,
               component_name |-> component_name,
               val |-> calculate_mttr(failure_log, equipment_id, component_name)]
    /\ UNCHANGED <<fleet, pending_orders, work_requests, file, clock,
                   uuid_counter, hor_at_creation, inventory, failure_log,
                   threads>>

\* what datetime.now() may read: the wall clock is not monotonic, and two
\* failures may carry the same stamp
Stamps == {0, 10 * Hour, 20 * Hour}
\* 0.0 from a processed request, 3.5 from the failure form
Repairs == {0, 7}
\* the failures that are logged: any on the first equipment, one kind on
\* the second
Failures ==
    ({EqSeq[1]} \X CompNames \X Repairs \X Stamps)
        \cup {<<EqSeq[2], CompSeq[1], 0, 0>>}
\* the component asked for: a name, or None for the whole equipment
Queried == CompNames \cup {NoName}

FailNext ==
    \/ \E f \in Failures : log_failure_call(f[1], f[2], f[3], f[4])
    \/ \E e \in EqIds, c \in Queried : calculate_mtbf_call(e, c)
    \/ \E e \in EqIds, c \in Queried : calculate_mttr_call(e, c)

FailSpec == FailInit /\ [][FailNext]_vars

\* the entries of one equipment, whatever their component
of_equipment(entries, equipment_id) ==
    SelectSeq(entries, LAMBDA entry : entry.equipment_id = equipment_id)

\* C18: with component_name = None both metrics are computed from every
\* failure entry of the equipment, whatever its component name.
C18_NoneAggregatesEquipment ==
    LET all == of_equipment(failure_log, ret.equipment_id)
    IN  /\ (ret.op = "calculate_mtbf" /\ ret.component_name = NoName) =>
               ret.val = mtbf_of([i \in DOMAIN all |-> all[i].timestamp])
        /\ (ret.op = "calculate_mttr" /\ ret.component_name = NoName) =>
               ret.val = IF all = <<>> THEN NoValue
                         ELSE Frac(sum([i \in DOMAIN all |->
                                          all[i].repair_time_hours]),
                                   Res * Len(all))

\* the number of entries logged for the pair
Count(equipment_id, component_name) ==
    Cardinality({i \in DOMAIN failure_log :
                    /\ failure_log[i].equipment_id = equipment_id
                    /\ failure_log[i].component_name = component_name})

\* C19: calculate_mtbf returns a value exactly when at least 2 entries are
\* logged for the (equipment, component) pair, calculate_mttr exactly when at
\* least 1 is; otherwise each returns None.
C19_DefinedFromEnoughEntries ==
    /\ (ret.op = "calculate_mtbf" /\ ret.component_name \in CompNames) =>
          (ret.val # NoValue
              <=> Count(ret.equipment_id, ret.component_name) >= 2)
    /\ (ret.op = "calculate_mttr" /\ ret.component_name \in CompNames) =>
          (ret.val # NoValue
              <=> Count(ret.equipment_id, ret.component_name) >= 1)

\* C19 witness: one failure is logged for the pair, and calculate_mttr
\* returned a value for it where calculate_mtbf has none
C19_Witness ==
    /\ ret.op = "calculate_mttr"
    /\ ret.component_name \in CompNames
    /\ Count(ret.equipment_id, ret.component_name) = 1
    /\ ret.val # NoValue
    /\ calculate_mtbf(failure_log, ret.equipment_id, ret.component_name)
          = NoValue

\* the timestamps logged for the pair, as a set
StampsOf(equipment_id, component_name) ==
    {failure_log[i].timestamp : i \in
        {j \in DOMAIN failure_log :
            /\ failure_log[j].equipment_id = equipment_id
            /\ failure_log[j].component_name = component_name}}

\* C20: the deltas between consecutive timestamps in ascending order add up
\* to latest - earliest, so with n >= 2 entries for the pair calculate_mtbf
\* is (latest - earliest) / (n - 1) hours, whatever the order in which the
\* entries were logged; for failures at t0, t0 + 10 h and t0 + 20 h it is
\* exactly 10.
C20_MeanOfAscendingDeltas ==
    (ret.op = "calculate_mtbf" /\ ret.component_name \in CompNames
        /\ Count(ret.equipment_id, ret.component_name) >= 2) =>
       LET ts == StampsOf(ret.equipment_id, ret.component_name)
           n == Count(ret.equipment_id, ret.component_name)
           latest == CHOOSE x \in ts : \A y \in ts : y <= x
           earliest == CHOOSE x \in ts : \A y \in ts : x <= y
       IN  /\ ret.val.den > 0
           /\ ret.val.num * (Hour * (n - 1)) = (latest - earliest) * ret.val.den
           /\ (n = 3 /\ ts = Stamps) => ret.val = [num |-> 10, den |-> 1]

\* C20 witness: the three failures were logged latest first, and the mean
\* time between them is 10 hours
C20_Witness ==
    /\ ret.op = "calculate_mtbf"
    /\ ret.component_name \in CompNames
    /\ Len(failure_log) = 3
    /\ \A i \in 1..3 : matches(failure_log[i], ret.equipment_id,
                               ret.component_name)
    /\ failure_log[1].timestamp = 20 * Hour
    /\ failure_log[2].timestamp = 0
    /\ failure_log[3].timestamp = 10 * Hour
    /\ ret.val = [num |-> 10, den |-> 1]

\* C11: orders are never deleted.  Every order that was ever added to the
\* collection (every id that an order was created with) is still in the
\* collection, with that id, after any later checks, creations, completions
\* and reruns of the session initialisation.
C11_OrdersNeverDeleted ==
    \A id \in DOMAIN hor_at_creation :
        hor_at_creation[id] # None =>
            \E i \in DOMAIN pending_orders : pending_orders[i].id = id

====
